---- MODULE Spec2Model ----
(***************************************************************************)
(* Verification model of rexologue/qm: the dense matrix container          *)
(* (containers/matrix.hpp), the LUP solver of equation_system              *)
(* (math/equation_system.hpp) and the Newton driver (main.cpp).            *)
(*                                                                         *)
(* The floating element type T is modelled by exact rationals <<p, q>>     *)
(* (q > 0, gcd(p, q) = 1), so that every division and comparison of the    *)
(* code has a definite value.  Indices are 0-based as in the source; a     *)
(* row-major buffer is a sequence, so buffer position i is element i + 1.  *)
(***************************************************************************)
EXTENDS Integers, Sequences, FiniteSets, TLC

VARIABLES
    pc,        \* position of the modelled call / run
    m,         \* matrix under test                      (matrix.hpp)
    m_old,     \* the same matrix before the last call   (ghost)
    perm,      \* argument of the last permute call      (ghost)
    err,       \* exception raised by the last call, or "none"
    sys,       \* equation_system {A, b}                 (equation_system.hpp)
    argA,      \* constructor argument A_
    argB,      \* constructor argument b_
    lup,       \* locals of solve_lup / lu_decompose_lup
    nw,        \* locals of main's Newton run            (main.cpp)
    mx,        \* matrix objects and the free store     (matrix.hpp, array.hpp)
    nz,        \* locals of normalize_l1 / normalize_l2  (linalg.hpp)
    jb         \* locals of build_jacobian_*             (main.cpp)

vars == <<pc, m, m_old, perm, err, sys, argA, argB, lup, nw, mx, nz, jb>>

----------------------------------------------------------------------------
(* Exact rational arithmetic standing for the floating type T.             *)

Abs(i) == IF i < 0 THEN -i ELSE i

RECURSIVE GCD(_, _)
GCD(a, b) == IF b = 0 THEN a ELSE GCD(b, a % b)

Rat(p, q) ==
    LET g == GCD(Abs(p), Abs(q))
        s == IF q < 0 THEN -1 ELSE 1
    IN  <<(s * p) \div g, (s * q) \div g>>

RInt(i) == <<i, 1>>
RZero == <<0, 1>>
ROne == <<1, 1>>

\* Sums, products and comparisons cancel common factors before multiplying.
RAdd(a, b) ==
    LET g == GCD(a[2], b[2])
    IN  Rat(a[1] * (b[2] \div g) + b[1] * (a[2] \div g), (a[2] \div g) * b[2])
RSub(a, b) ==
    LET g == GCD(a[2], b[2])
    IN  Rat(a[1] * (b[2] \div g) - b[1] * (a[2] \div g), (a[2] \div g) * b[2])
RMul(a, b) ==
    LET g1 == GCD(Abs(a[1]), b[2])
        g2 == GCD(Abs(b[1]), a[2])
    IN  IF a[1] = 0 \/ b[1] = 0 THEN <<0, 1>>
        ELSE <<(a[1] \div g1) * (b[1] \div g2), (a[2] \div g2) * (b[2] \div g1)>>
RDiv(a, b) ==
    IF b[1] > 0 THEN RMul(a, <<b[2], b[1]>>)
    ELSE IF b[1] < 0 THEN RMul(a, <<-b[2], -b[1]>>)
    ELSE Rat(a[1] * b[2], 0)
RNeg(a) == <<-a[1], a[2]>>
RAbs(a) == <<Abs(a[1]), a[2]>>
RLt(a, b) ==
    LET g == GCD(a[2], b[2])
    IN  a[1] * (b[2] \div g) < b[1] * (a[2] \div g)
RLe(a, b) ==
    LET g == GCD(a[2], b[2])
    IN  a[1] * (b[2] \div g) <= b[1] * (a[2] \div g)
RGt(a, b) == RLt(b, a)

----------------------------------------------------------------------------
(* miv::matrix<T>: m_rows, m_cols and the row-major buffer m_data.         *)

Matrix(r, c, d) == [m_rows |-> r, m_cols |-> c, m_data |-> d]

\* matrix(): the empty matrix.
EmptyMatrix == Matrix(0, 0, <<>>)

\* linear_index(r, c): the bounds check of operator().
InRange(M, r, c) == r < M.m_rows /\ c < M.m_cols
linear_index(M, r, c) == r * M.m_cols + c

\* operator()(r, c) const, for an index in range.
at(M, r, c) == M.m_data[linear_index(M, r, c) + 1]

\* operator()(r, c) = v, for an index in range.
put(M, r, c, v) ==
    [M EXCEPT !.m_data = [@ EXCEPT ![linear_index(M, r, c) + 1] = v]]

rows(M) == M.m_rows
cols(M) == M.m_cols

\* miv::array<std::size_t> as a sequence; perm[i] is element i + 1.
PermSize(p) == Len(p)
PermAt(p, i) == p[i + 1]

\* Variant of the validation without the uniqueness loop.
PermCheckNoUnique(p, dim) ==
    IF PermSize(p) # dim THEN "invalid_argument"
    ELSE IF \E i \in 0..(PermSize(p) - 1) : PermAt(p, i) >= dim THEN "out_of_range"
    ELSE "none"

\* The three validation loops of row_permute / col_permute, in order;
\* dim is m_rows or m_cols.  The result is the exception thrown.
PermCheck(p, dim) ==
    IF PermSize(p) # dim THEN "invalid_argument"
    ELSE IF \E i \in 0..(PermSize(p) - 1) : PermAt(p, i) >= dim THEN "out_of_range"
    ELSE IF \E i \in 0..(PermSize(p) - 1) : \E j \in (i + 1)..(PermSize(p) - 1) :
                PermAt(p, i) = PermAt(p, j) THEN "invalid_argument"
    ELSE "none"

\* Variant of row_permute that scatters instead of gathers:
\* new(perm[r], c) = old(r, c).
RowScattered(M, p) ==
    IF M.m_rows = 0 \/ M.m_cols = 0 THEN M
    ELSE [M EXCEPT !.m_data =
            [i \in 1..(M.m_rows * M.m_cols) |->
                LET r == (i - 1) \div M.m_cols
                    c == (i - 1) % M.m_cols
                    s == CHOOSE t \in 0..(M.m_rows - 1) : PermAt(p, t) = r
                IN  M.m_data[s * M.m_cols + c + 1]]]

\* row_permute(perm) on a matrix that passed validation.
RowPermuted(M, p) ==
    IF M.m_rows = 0 \/ M.m_cols = 0 THEN M
    ELSE [M EXCEPT !.m_data =
            [i \in 1..(M.m_rows * M.m_cols) |->
                LET r == (i - 1) \div M.m_cols
                    c == (i - 1) % M.m_cols
                IN  M.m_data[PermAt(p, r) * M.m_cols + c + 1]]]

\* col_permute(perm) on a matrix that passed validation.
ColPermuted(M, p) ==
    IF M.m_rows = 0 \/ M.m_cols = 0 THEN M
    ELSE [M EXCEPT !.m_data =
            [i \in 1..(M.m_rows * M.m_cols) |->
                LET r == (i - 1) \div M.m_cols
                    c == (i - 1) % M.m_cols
                IN  at(M, r, PermAt(p, c))]]

\* matrix::row_permute: the call as a whole (result matrix, exception).
row_permute(M, p) ==
    LET e == PermCheck(p, M.m_rows)
    IN  IF e # "none" THEN [mat |-> M, err |-> e]
        ELSE [mat |-> RowPermuted(M, p), err |-> "none"]

\* matrix::col_permute: the call as a whole.
col_permute(M, p) ==
    LET e == PermCheck(p, M.m_cols)
    IN  IF e # "none" THEN [mat |-> M, err |-> e]
        ELSE [mat |-> ColPermuted(M, p), err |-> "none"]

----------------------------------------------------------------------------
(* math/helpers.hpp                                                        *)

\* require_squareness: TRUE when it does not throw.
require_squareness(M) == M.m_cols = M.m_rows

is_vector(v) == (v.m_rows = 1) \/ (v.m_cols = 1)

\* vector_length: the length, or -1 for the invalid_argument it throws.
vector_length(v) ==
    IF v.m_rows = 1 THEN v.m_cols
    ELSE IF v.m_cols = 1 THEN v.m_rows
    ELSE -1

\* vector_at(v, i), for a matrix that is a vector.
vector_at(v, i) == IF v.m_rows = 1 THEN at(v, 0, i) ELSE at(v, i, 0)

\* Variant of permute_vector that leaves a row vector as it is.
permute_vector_columns_only(v, p) ==
    IF v.m_cols = 1 /\ v.m_rows # 1 THEN row_permute(v, p)
    ELSE IF v.m_rows = 1 THEN [mat |-> v, err |-> "none"]
    ELSE [mat |-> v, err |-> "invalid_argument"]

\* permute_vector(v, perm): result matrix and exception.
permute_vector(v, p) ==
    IF v.m_rows = 1 THEN col_permute(v, p)
    ELSE IF v.m_cols = 1 THEN row_permute(v, p)
    ELSE [mat |-> v, err |-> "invalid_argument"]

----------------------------------------------------------------------------
(* math/linalg.hpp                                                         *)

\* identity<T>(n)
identity(n) ==
    Matrix(n, n, [i \in 1..(n * n) |->
        IF (i - 1) \div n = (i - 1) % n THEN ROne ELSE RZero])

\* One output cell of matmul: contributions accumulated for t = 0..n-1.
RECURSIVE MatmulCell(_, _, _, _, _)
MatmulCell(a, b, i, j, t) ==
    IF t = 0 THEN RZero
    ELSE RAdd(MatmulCell(a, b, i, j, t - 1), RMul(at(a, i, t - 1), at(b, t - 1, j)))

\* matmul(a, b), for a.cols = b.rows.
matmul(a, b) ==
    Matrix(a.m_rows, b.m_cols, [i \in 1..(a.m_rows * b.m_cols) |->
        MatmulCell(a, b, (i - 1) \div b.m_cols, (i - 1) % b.m_cols, a.m_cols)])

----------------------------------------------------------------------------
(* math/equation_system.hpp                                                *)

\* eps = static_cast<T>(1e-18) = 1 / 10^EpsExp.
EpsExp == 18

RECURSIVE DivPow10(_, _)
DivPow10(q, e) == IF e = 0 THEN q ELSE DivPow10(q \div 10, e - 1)

\* v <= eps for v = p/q >= 0:  p * 10^EpsExp <= q  iff  p <= q div 10^EpsExp.
LeEps(v) == v[1] <= DivPow10(v[2], EpsExp)

\* Variant of the constructor's checks without the length comparison.
CtorAcceptsAnyLength(A_, b_) ==
    /\ require_squareness(A_)
    /\ is_vector(b_)

\* The constructor's checks: TRUE when it does not throw.
CtorAccepts(A_, b_) ==
    /\ require_squareness(A_)
    /\ ~(~is_vector(b_) \/ vector_length(b_) # A_.m_rows)

\* Variant of build_swap_perm that assigns perm[i] = j only.
build_swap_perm_half(n, i, j) ==
    [t \in 1..n |-> IF t - 1 = i THEN j ELSE t - 1]

\* build_swap_perm(n, i, j): iota, then swap perm[i] and perm[j].
build_swap_perm(n, i, j) ==
    [t \in 1..n |-> IF t - 1 = i THEN j ELSE IF t - 1 = j THEN i ELSE t - 1]

\* Variant of the pivot search that keeps the diagonal candidate.
FindPivotDiagonal(U, k, i, pivot, max_val) ==
    [pivot |-> pivot, max_val |-> max_val]

\* Variant of the pivot search in which a row of equal magnitude replaces the
\* candidate.
RECURSIVE FindPivotLast(_, _, _, _, _)
FindPivotLast(U, k, i, pivot, max_val) ==
    IF i >= U.m_rows THEN [pivot |-> pivot, max_val |-> max_val]
    ELSE IF RLe(max_val, RAbs(at(U, i, k)))
    THEN FindPivotLast(U, k, i + 1, i, RAbs(at(U, i, k)))
    ELSE FindPivotLast(U, k, i + 1, pivot, max_val)

\* The pivot search of lu_decompose_lup: rows i..n-1 of column k, the running
\* candidate being (pivot, max_val).
RECURSIVE FindPivot(_, _, _, _, _)
FindPivot(U, k, i, pivot, max_val) ==
    IF i >= U.m_rows THEN [pivot |-> pivot, max_val |-> max_val]
    ELSE LET val == RAbs(at(U, i, k))
         IN  IF RGt(val, max_val)
             THEN FindPivot(U, k, i + 1, i, val)
             ELSE FindPivot(U, k, i + 1, pivot, max_val)

\* Variant of the multiplier swap that leaves L as it is.
SwapLNone(L, k, pivot, j) == L

\* Variant of the multiplier swap that exchanges the two rows of L whole.
SwapLRows(L, k, pivot, j) == RowPermuted(L, build_swap_perm(L.m_rows, k, pivot))

\* for j in 0..k-1: swap(L(k, j), L(pivot, j)), from column j on.
RECURSIVE SwapL(_, _, _, _)
SwapL(L, k, pivot, j) ==
    IF j >= k THEN L
    ELSE SwapL(put(put(L, k, j, at(L, pivot, j)), pivot, j, at(L, k, j)),
               k, pivot, j + 1)

\* for j in k+1..n-1: U(i, j) -= mult * U(k, j), from column j on.
RECURSIVE ElimCols(_, _, _, _, _)
ElimCols(U, mult, k, i, j) ==
    IF j >= U.m_rows THEN U
    ELSE ElimCols(put(U, i, j, RSub(at(U, i, j), RMul(mult, at(U, k, j)))),
                  mult, k, i, j + 1)

\* for i in k+1..n-1: the elimination of row i, from row i on; LU = [L, U].
RECURSIVE ElimRows(_, _, _)
ElimRows(LU, k, i) ==
    IF i >= LU.U.m_rows THEN LU
    ELSE LET mult == RDiv(at(LU.U, i, k), at(LU.U, k, k))
             L1 == put(LU.L, i, k, mult)
             U1 == put(LU.U, i, k, RZero)
         IN  ElimRows([L |-> L1, U |-> ElimCols(U1, mult, k, i, k + 1)], k, i + 1)

\* forward_substitution: sum over j < i of L(i, j) * y(j, 0).
RECURSIVE FwdSum(_, _, _, _)
FwdSum(L, y, i, j) ==
    IF j = 0 THEN RZero
    ELSE RAdd(FwdSum(L, y, i, j - 1), RMul(at(L, i, j - 1), y[j]))

\* forward_substitution: the buffer of y after rows 0..i-1.
RECURSIVE FwdRows(_, _, _)
FwdRows(L, b_work, i) ==
    IF i = 0 THEN <<>>
    ELSE LET y == FwdRows(L, b_work, i - 1)
         IN  Append(y, RSub(vector_at(b_work, i - 1), FwdSum(L, y, i - 1, i - 1)))

forward_substitution(L, b_work) ==
    Matrix(L.m_rows, 1, FwdRows(L, b_work, L.m_rows))

\* backward_substitution: sum over j in row+1..n-1 of U(row, j) * x(j, 0);
\* xs holds x(row+1..n-1, 0).
RECURSIVE BwdSum(_, _, _, _)
BwdSum(U, xs, row, j) ==
    IF j >= U.m_rows THEN RZero
    ELSE RAdd(RMul(at(U, row, j), xs[j - row]), BwdSum(U, xs, row, j + 1))

\* backward_substitution: x(row..n-1, 0), rows processed from n-1 down.
RECURSIVE BwdRows(_, _, _)
BwdRows(U, y, row) ==
    IF row >= U.m_rows THEN <<>>
    ELSE LET xs == BwdRows(U, y, row + 1)
         IN  <<RDiv(RSub(vector_at(y, row), BwdSum(U, xs, row, row + 1)),
                    at(U, row, row))>> \o xs

backward_substitution(U, y) ==
    Matrix(U.m_rows, 1, BwdRows(U, y, 0))

\* Variant of the iteration that makes no singularity test at the last column.
lu_step_from_unchecked_last(L, U, b_work, k, f, ru, rb) ==
    IF k + 1 < U.m_rows /\ LeEps(f.max_val)
    THEN [status |-> "singular", err |-> "invalid_argument", pivot |-> f.pivot,
          L |-> L, U |-> U, b_work |-> b_work]
    ELSE IF f.pivot = k
    THEN [status |-> "ok", err |-> "none", pivot |-> f.pivot,
          L |-> L, U |-> U, b_work |-> b_work]
    ELSE IF ru.err # "none"
    THEN [status |-> "permute_failed", err |-> ru.err, pivot |-> f.pivot,
          L |-> L, U |-> U, b_work |-> b_work]
    ELSE IF rb.err # "none"
    THEN [status |-> "permute_failed", err |-> rb.err, pivot |-> f.pivot,
          L |-> L, U |-> ru.mat, b_work |-> b_work]
    ELSE [status |-> "ok", err |-> "none", pivot |-> f.pivot,
          L |-> SwapL(L, k, f.pivot, 0), U |-> ru.mat, b_work |-> rb.mat]

\* One iteration of the for-k loop after the pivot search f and with the
\* outcomes ru, rb of U.row_permute(perm) and permute_vector(b_work, perm):
\* singularity test, row swap in U, b_work and L, elimination below row k.
\* status is "ok", "singular" (the throw of the eps test) or "permute_failed"
\* (a throw out of row_permute / permute_vector).
lu_step_from(L, U, b_work, k, f, ru, rb) ==
    IF LeEps(f.max_val)
    THEN [status |-> "singular", err |-> "invalid_argument", pivot |-> f.pivot,
          L |-> L, U |-> U, b_work |-> b_work]
    ELSE IF f.pivot = k
    THEN [status |-> "ok", err |-> "none", pivot |-> f.pivot,
          L |-> L, U |-> U, b_work |-> b_work]
    ELSE IF ru.err # "none"
    THEN [status |-> "permute_failed", err |-> ru.err, pivot |-> f.pivot,
          L |-> L, U |-> U, b_work |-> b_work]
    ELSE IF rb.err # "none"
    THEN [status |-> "permute_failed", err |-> rb.err, pivot |-> f.pivot,
          L |-> L, U |-> ru.mat, b_work |-> b_work]
    ELSE [status |-> "ok", err |-> "none", pivot |-> f.pivot,
          L |-> SwapL(L, k, f.pivot, 0), U |-> ru.mat, b_work |-> rb.mat]

\* The outcome s of the swap with L and U replaced by the eliminated pair.
lu_eliminated(s, LU) ==
    IF s.status # "ok" THEN s ELSE [s EXCEPT !.L = LU.L, !.U = LU.U]

\* The elimination below row k, applied to the outcome s of the swap.
lu_eliminate(s, k) == lu_eliminated(s, ElimRows([L |-> s.L, U |-> s.U], k, k + 1))

\* The pivot search of iteration k, then the rest of the iteration.
lu_step_pivot(L, U, b_work, k, f) ==
    lu_eliminate(
        lu_step_from(L, U, b_work, k, f,
                     row_permute(U, build_swap_perm(U.m_rows, k, f.pivot)),
                     permute_vector(b_work, build_swap_perm(U.m_rows, k, f.pivot))),
        k)

\* The body of the for-k loop of lu_decompose_lup for one k.
lu_step(L, U, b_work, k) ==
    lu_step_pivot(L, U, b_work, k, FindPivot(U, k, k + 1, k, RAbs(at(U, k, k))))

\* lu_decompose_lup(A_work, b_work): the for-k loop from k on; lu_next takes
\* the outcome r of iteration k.
RECURSIVE lu_loop(_, _, _, _)
lu_next(r, k) ==
    IF r.status # "ok"
    THEN [status |-> r.status, err |-> r.err, L |-> r.L, U |-> r.U,
          b_work |-> r.b_work]
    ELSE lu_loop(r.L, r.U, r.b_work, k + 1)

lu_loop(L, U, b_work, k) ==
    IF k >= U.m_rows
    THEN [status |-> "ok", err |-> "none", L |-> L, U |-> U, b_work |-> b_work]
    ELSE lu_next(lu_step(L, U, b_work, k), k)

lu_decompose_lup(A_work, b_work) ==
    lu_loop(identity(A_work.m_rows), A_work, b_work, 0)

\* solve_lup after the decomposition d: the substitutions, or the throw.
solve_from(d) ==
    IF d.status # "ok"
    THEN [status |-> d.status, err |-> d.err, x |-> EmptyMatrix]
    ELSE [status |-> "ok", err |-> "none",
          x |-> backward_substitution(d.U, forward_substitution(d.L, d.b_work))]

\* equation_system(A, b).solve_lup() as one call: the solution or the throw.
solve_lup(A, b) == solve_from(lu_decompose_lup(A, b))

----------------------------------------------------------------------------
(* Bounds and input domains.                                               *)

\* Largest row / column count of the matrices handed to the permute calls,
\* and largest index that appears in a permutation argument.
MaxDim == 3

\* Largest magnitude of an integer entry of A for systems of dimension at
\* most 2.
MaxVal == 2

\* Largest row / column count of the constructor arguments whose shapes are
\* enumerated.
MaxShape == 3

\* A matrix of the given shape whose buffer holds 1, 2, 3, ... (all distinct).
Labelled(r, c) == Matrix(r, c, [i \in 1..(r * c) |-> RInt(i)])

PermMatrices == {Labelled(r, c) : r \in 0..MaxDim, c \in 0..MaxDim}

PermArgs == UNION {[1..l -> 0..MaxDim] : l \in 0..(MaxDim + 1)}

Entries == {RInt(i) : i \in (-MaxVal)..MaxVal}
\* Entries of the right-hand side b for systems of dimension at most 2.
BEntries == {RInt(0), RInt(1), RInt(2)}
Entries3 == {RInt(-1), RInt(0), RInt(1)}

SqMatrices(n, V) == {Matrix(n, n, d) : d \in [1..(n * n) -> V]}
RowVectors(n, V) == {Matrix(1, n, d) : d \in [1..n -> V]}
ColVectors(n, V) == {Matrix(n, 1, d) : d \in [1..n -> V]}

\* Right-hand sides of the systems of dimension 3.
BData3 == {<<RInt(1), RInt(2), RInt(3)>>}

\* The singular system of the spec's scenario: A = [[1,2],[2,4]], b = [1,3].
ScenarioA == Matrix(2, 2, <<RInt(1), RInt(2), RInt(2), RInt(4)>>)
ScenarioB == Matrix(2, 1, <<RInt(1), RInt(3)>>)

LupArgs ==
    UNION {SqMatrices(n, Entries) \X (RowVectors(n, BEntries) \cup ColVectors(n, BEntries))
             : n \in 0..2}
    \cup (SqMatrices(3, Entries3)
             \X ({Matrix(1, 3, d) : d \in BData3} \cup {Matrix(3, 1, d) : d \in BData3}))
    \cup {<<ScenarioA, ScenarioB>>}
    \cup {<<Labelled(r, c), Labelled(br, bc)>> :
             r \in 0..MaxShape, c \in 0..MaxShape, br \in 0..MaxShape, bc \in 0..MaxShape}

----------------------------------------------------------------------------
(* Values of the variables a specification does not use.                   *)

NoSys == [A |-> EmptyMatrix, b |-> EmptyMatrix]

NoLup == [A_work |-> EmptyMatrix, b_work |-> EmptyMatrix, L |-> EmptyMatrix,
          U |-> EmptyMatrix, k |-> 0, pivot |-> 0, U_pre |-> EmptyMatrix,
          y |-> EmptyMatrix, x |-> EmptyMatrix, P |-> <<>>]

NoNewton == [run |-> "none"]
NoObjects == [run |-> "none"]
NoNormalize == [run |-> "none"]
NoJacobian == [run |-> "none"]

\* The result block of main before it is printed.
NoReport == [status |-> "none", x |-> <<>>, fx_norm_sq |-> <<0, 1>>, iter_done |-> 0]

----------------------------------------------------------------------------
(* Specification SpecPerm: one row_permute / col_permute call on a matrix. *)

InitPerm ==
    /\ pc = "idle"
    /\ m \in PermMatrices
    /\ m_old = m
    /\ perm = <<>>
    /\ err = "none"
    /\ sys = NoSys /\ argA = EmptyMatrix /\ argB = EmptyMatrix
    /\ lup = NoLup /\ nw = NoNewton /\ mx = NoObjects /\ nz = NoNormalize /\ jb = NoJacobian

RowPermuteCall ==
    /\ pc = "idle"
    /\ \E p \in PermArgs :
          LET r == row_permute(m, p)
          IN  /\ m' = r.mat
              /\ err' = r.err
              /\ perm' = p
    /\ m_old' = m
    /\ pc' = "row_permute"
    /\ UNCHANGED <<sys, argA, argB, lup, nw, mx, nz, jb>>

ColPermuteCall ==
    /\ pc = "idle"
    /\ \E p \in PermArgs :
          LET r == col_permute(m, p)
          IN  /\ m' = r.mat
              /\ err' = r.err
              /\ perm' = p
    /\ m_old' = m
    /\ pc' = "col_permute"
    /\ UNCHANGED <<sys, argA, argB, lup, nw, mx, nz, jb>>

NextPerm == RowPermuteCall \/ ColPermuteCall

SpecPerm == InitPerm /\ [][NextPerm]_vars

----------------------------------------------------------------------------
(* Specification SpecLup: equation_system(A_, b_) and then solve_lup().    *)

InitLup ==
    /\ pc = "args"
    /\ \E a \in LupArgs : argA = a[1] /\ argB = a[2]
    /\ sys = NoSys
    /\ lup = NoLup
    /\ err = "none"
    /\ m = EmptyMatrix /\ m_old = EmptyMatrix /\ perm = <<>> /\ nw = NoNewton
    /\ mx = NoObjects /\ nz = NoNormalize /\ jb = NoJacobian

\* equation_system::equation_system(A_, b_)
EquationSystem ==
    /\ pc = "args"
    /\ IF CtorAccepts(argA, argB)
       THEN /\ sys' = [A |-> argA, b |-> argB]
            /\ pc' = "sys"
            /\ err' = "none"
       ELSE /\ sys' = NoSys
            /\ pc' = "ctor_failed"
            /\ err' = "invalid_argument"
    /\ UNCHANGED <<m, m_old, perm, argA, argB, lup, nw, mx, nz, jb>>

\* auto A_work = A; auto b_work = b;  The working copies are copies, so the
\* system a step leaves behind is the system it found, whatever b_work became.
SysAliased(b_work_new) == [sys EXCEPT !.b = b_work_new]
SysAfter(b_work_new) == sys

\* solve_lup() up to the first pivot step: the working copies, L and U.
SolveLupBegin ==
    /\ pc = "sys"
    /\ lup' = [A_work |-> sys.A, b_work |-> sys.b,
               L |-> identity(sys.A.m_rows), U |-> sys.A,
               k |-> 0, pivot |-> 0, U_pre |-> sys.A,
               y |-> EmptyMatrix, x |-> EmptyMatrix,
               P |-> [t \in 1..sys.A.m_rows |-> t - 1]]
    /\ pc' = IF sys.A.m_rows = 0 THEN "forward" ELSE "pivot"
    /\ UNCHANGED <<m, m_old, perm, err, sys, argA, argB, nw, mx, nz, jb>>

\* The rows of the working copies in terms of the rows of A and b (ghost):
\* row t of U and b_work stems from row P[t]; a step exchanges two entries.
Swapped(P, k, pivot) ==
    [t \in 1..Len(P) |-> P[build_swap_perm(Len(P), k, pivot)[t] + 1]]

\* One iteration of the for-k loop of lu_decompose_lup.
PivotStep ==
    /\ pc = "pivot"
    /\ \E r \in {lu_step(lup.L, lup.U, lup.b_work, lup.k)} :
           /\ pc' = IF r.status = "singular" THEN "singular"
                    ELSE IF r.status = "permute_failed" THEN "permute_failed"
                    ELSE IF lup.k + 1 < lup.U.m_rows THEN "pivot"
                    ELSE "forward"
           /\ err' = r.err
           /\ lup' = [lup EXCEPT !.pivot = r.pivot, !.U_pre = lup.U,
                                 !.L = r.L, !.U = r.U, !.b_work = r.b_work,
                                 !.k = IF r.status = "ok" THEN lup.k + 1 ELSE lup.k,
                                 !.P = IF r.status = "ok"
                                       THEN Swapped(@, lup.k, r.pivot) ELSE @]
    /\ sys' = SysAfter(lup'.b_work)
    /\ UNCHANGED <<m, m_old, perm, argA, argB, nw, mx, nz, jb>>

\* const auto y = forward_substitution(L, b_work);
ForwardSubstitution ==
    /\ pc = "forward"
    /\ lup' = [lup EXCEPT !.y = forward_substitution(lup.L, lup.b_work)]
    /\ pc' = "backward"
    /\ UNCHANGED <<m, m_old, perm, err, sys, argA, argB, nw, mx, nz, jb>>

\* return backward_substitution(U, y);
BackwardSubstitution ==
    /\ pc = "backward"
    /\ lup' = [lup EXCEPT !.x = backward_substitution(lup.U, lup.y)]
    /\ pc' = "returned"
    /\ UNCHANGED <<m, m_old, perm, err, sys, argA, argB, nw, mx, nz, jb>>

NextLup ==
    \/ EquationSystem
    \/ SolveLupBegin
    \/ PivotStep
    \/ ForwardSubstitution
    \/ BackwardSubstitution

SpecLup == InitLup /\ [][NextLup]_vars

----------------------------------------------------------------------------
(* main.cpp: the Newton driver.  An array miv::array<T> is a sequence; x[i] *)
(* of the source is element i + 1.                                         *)

\* get_system_functions() returns { func1, func2 }: the dimension n.
NFunctions == 2

\* func1(x, y) = x^2 + y^2 - 1
func1(x) == RSub(RAdd(RMul(x[1], x[1]), RMul(x[2], x[2])), ROne)

\* func2(x, y) = x - y
func2(x) == RSub(x[1], x[2])

\* functions[i](x), i counted from 1.
Func(i, x) == IF i = 1 THEN func1(x) ELSE func2(x)

compute_F(x) == Matrix(NFunctions, 1, [i \in 1..NFunctions |-> Func(i, x)])

to_column_matrix(a) == Matrix(Len(a), 1, a)

\* column_matrix_to_array(v), for v.cols() = 1.
column_matrix_to_array(v) == v.m_data

\* std::sqrt(std::numeric_limits<T>::epsilon()): an irrational of the floating
\* type, for which a fixed positive rational stands.
SqrtEpsT == <<1, 4>>

\* h = sqrt(eps) * (1 + |x[j]|)
StepH(xj) == RMul(SqrtEpsT, RAdd(ROne, RAbs(xj)))

build_jacobian_two_point(x) ==
    LET n == NFunctions
        fx == compute_F(x)
    IN  Matrix(n, n, [c \in 1..(n * n) |->
            LET i == (c - 1) \div n
                j == (c - 1) % n
                h == StepH(x[j + 1])
                x_plus == [x EXCEPT ![j + 1] = RAdd(@, h)]
                f_plus == compute_F(x_plus)
            IN  RDiv(RSub(at(f_plus, i, 0), at(fx, i, 0)), h)])

build_jacobian_three_point(x) ==
    LET n == NFunctions
    IN  Matrix(n, n, [c \in 1..(n * n) |->
            LET i == (c - 1) \div n
                j == (c - 1) % n
                h == StepH(x[j + 1])
                x_plus == [x EXCEPT ![j + 1] = RAdd(@, h)]
                x_minus == [x EXCEPT ![j + 1] = RSub(@, h)]
                f_plus == compute_F(x_plus)
                f_minus == compute_F(x_minus)
            IN  RDiv(RSub(at(f_plus, i, 0), at(f_minus, i, 0)), RMul(RInt(2), h))])

build_jacobian(formula, x) ==
    IF formula = "TwoPoint" THEN build_jacobian_two_point(x)
    ELSE build_jacobian_three_point(x)

\* b(i, 0) = -fx(i, 0)
negated(fx) == Matrix(fx.m_rows, 1, [i \in 1..fx.m_rows |-> RNeg(at(fx, i - 1, 0))])

\* Variant of solve_step's result that turns a throw of solve_lup into a zero
\* step.
step_from_skipped(r) ==
    IF r.status # "ok"
    THEN [status |-> "ok", err |-> "none", step |-> <<RZero, RZero>>]
    ELSE [status |-> "ok", err |-> "none", step |-> column_matrix_to_array(r.x)]

\* solve_step after solve_lup returned or threw r.
step_from(r) ==
    IF r.status # "ok"
    THEN [status |-> r.status, err |-> r.err, step |-> <<>>]
    ELSE [status |-> "ok", err |-> "none", step |-> column_matrix_to_array(r.x)]

\* equation_system<T> sys(J, b); sys.solve_lup()
solve_system(J, b) ==
    IF ~CtorAccepts(J, b)
    THEN [status |-> "ctor_failed", err |-> "invalid_argument", step |-> <<>>]
    ELSE step_from(solve_lup(J, b))

\* solve_step(J, fx): b = -fx, equation_system(J, b).solve_lup(), as an array.
solve_step(J, fx) == solve_system(J, negated(fx))

\* The accumulator of norm_l2 before the square root: acc += v * v over the
\* buffer.  A norm is carried as its square.
RECURSIVE SumSq(_, _)
SumSq(d, i) == IF i = 0 THEN RZero ELSE RAdd(SumSq(d, i - 1), RMul(d[i], d[i]))

norm_l2_sq(M) == SumSq(M.m_data, Len(M.m_data))

\* fx_norm < eps_F, fx_norm = sqrt(acc):  eps_F > 0 and acc < eps_F^2.
ResidualBelowOrEqual(acc, eps_F) == RGt(eps_F, RZero) /\ RLe(acc, RMul(eps_F, eps_F))
ResidualBelow(acc, eps_F) == RGt(eps_F, RZero) /\ RLt(acc, RMul(eps_F, eps_F))

\* Variant of the step criterion that compares the squares whatever the sign
\* of eps_x.
StepBelowSquared(a, eps_x, b) ==
    \/ RLt(a, RMul(eps_x, eps_x))
    \/ RLt(RSub(RAdd(a, RMul(eps_x, eps_x)), RMul(RMul(eps_x, eps_x), b)), RZero)

\* step_norm < eps_x * (1 + x_norm), with step_norm = sqrt(a), x_norm = sqrt(b).
\* For e = eps_x > 0:  sqrt(a) - e < e * sqrt(b), decided by squaring twice.
StepBelow(a, eps_x, b) ==
    /\ RGt(eps_x, RZero)
    /\ LET e2 == RMul(eps_x, eps_x)
           d == RSub(RAdd(a, e2), RMul(e2, b))
       IN  \/ RLt(a, e2)
           \/ RLt(d, RZero)
           \/ RLt(RMul(d, d), RMul(RInt(4), RMul(e2, a)))

\* for (k = 0; k < max_iter; ++k): the loop condition.
LoopCondLe(k, max_iter) == k <= max_iter
LoopCond(k, max_iter) == k < max_iter

\* x[i] += lambda * step[i]
undamped_update(x, lambda, step) == [i \in 1..Len(x) |-> RAdd(x[i], step[i])]
damped_update(x, lambda, step) == [i \in 1..Len(x) |-> RAdd(x[i], RMul(lambda, step[i]))]

\* Largest max_iter of a run.
MaxIter == 2

\* Largest numerator magnitude and denominator of the numbers a run carries in
\* x, fx, J and step: a run whose numbers leave this range is followed no further.
MaxMag == 48

RatInRange(v) == Abs(v[1]) <= MaxMag /\ v[2] <= MaxMag
SeqInRange(d) == \A i \in 1..Len(d) : RatInRange(d[i])
Carried ==
    /\ SeqInRange(nw.x)
    /\ SeqInRange(nw.fx.m_data)
    /\ SeqInRange(nw.J.m_data)
    /\ SeqInRange(nw.J_frozen.m_data)
    /\ SeqInRange(nw.step)

Methods == {"Newton", "ModifiedNewton"}
Formulas == {"TwoPoint", "ThreePoint"}
Lambdas == {<<1, 1>>, <<1, 2>>}
EpsFs == {<<-1, 1>>, <<0, 1>>, <<1, 1>>, <<2, 1>>}
EpsXs == {<<-1, 1>>, <<0, 1>>, <<1, 4>>, <<1, 1>>}
X0s == {<<RInt(1), RInt(1)>>, <<RInt(0), RInt(0)>>, <<RInt(1), RInt(0)>>}
ManualJacobians ==
    { Matrix(2, 2, <<RInt(2), RInt(2), RInt(1), RInt(-1)>>),
      Matrix(2, 2, <<RInt(1), RInt(2), RInt(2), RInt(4)>>) }

\* The configurations a run is started with: the values main reads.
JacobianSources ==
    {[jacobian_mode |-> "Numeric", numeric_formula |-> f, J_manual |-> EmptyMatrix] :
        f \in Formulas}
    \cup {[jacobian_mode |-> "Manual", numeric_formula |-> "TwoPoint", J_manual |-> J] :
        J \in ManualJacobians}

----------------------------------------------------------------------------
(* Specification SpecNewton: one run of main's loop, from the configuration *)
(* read from the user to the report or the fatal error.                     *)

InitNewton ==
    /\ pc = "setup"
    /\ \E method \in Methods, src \in JacobianSources, lambda \in Lambdas,
          max_iter \in 1..MaxIter, eps_F \in EpsFs, eps_x \in EpsXs, x0 \in X0s :
          nw = [run |-> "newton", method |-> method,
                jacobian_mode |-> src.jacobian_mode,
                numeric_formula |-> src.numeric_formula,
                J_manual |-> src.J_manual, J_frozen |-> EmptyMatrix,
                lambda |-> lambda, max_iter |-> max_iter,
                eps_F |-> eps_F, eps_x |-> eps_x,
                x |-> x0, x0 |-> x0, k |-> 0,
                converged |-> FALSE, iter_done |-> 0,
                fx |-> EmptyMatrix, J |-> EmptyMatrix, step |-> <<>>,
                message |-> "none", report |-> NoReport,
                n_F |-> 0, n_jac |-> 0, n_solve |-> 0, n_update |-> 0,
                jac_k |-> -1, solve_k |-> -1, x_iter |-> x0,
                n_res_fail |-> 0, n_step_fail |-> 0]
    /\ err = "none"
    /\ m = EmptyMatrix /\ m_old = EmptyMatrix /\ perm = <<>>
    /\ sys = NoSys /\ argA = EmptyMatrix /\ argB = EmptyMatrix /\ lup = NoLup
    /\ mx = NoObjects /\ nz = NoNormalize /\ jb = NoJacobian

\* main.cpp 545-561: J_frozen for ModifiedNewton, converged = false, iter_done = 0.
NewtonSetup ==
    /\ pc = "setup"
    /\ nw' = IF nw.method = "ModifiedNewton"
             THEN IF nw.jacobian_mode = "Numeric"
                  THEN [nw EXCEPT !.J_frozen = build_jacobian(nw.numeric_formula, nw.x),
                                  !.n_jac = @ + 1]
                  ELSE [nw EXCEPT !.J_frozen = nw.J_manual]
             ELSE nw
    /\ pc' = "loop"
    /\ UNCHANGED <<m, m_old, perm, err, sys, argA, argB, lup, mx, nz, jb>>

\* main.cpp 563-574: the loop condition holds; iter_done, F(x) and the
\* residual criterion.
ResidualTest ==
    /\ pc = "loop"
    /\ Carried
    /\ LoopCond(nw.k, nw.max_iter)
    /\ \E fx \in {compute_F(nw.x)} :
          IF ResidualBelow(norm_l2_sq(fx), nw.eps_F)
          THEN /\ nw' = [nw EXCEPT !.iter_done = nw.k + 1, !.fx = fx, !.n_F = @ + 1,
                                   !.x_iter = nw.x,
                                   !.converged = TRUE, !.message = "residual"]
               /\ pc' = "report"
          ELSE /\ nw' = [nw EXCEPT !.iter_done = nw.k + 1, !.fx = fx, !.n_F = @ + 1,
                                   !.x_iter = nw.x,
                                   !.n_res_fail = @ + 1]
               /\ pc' = "jacobian"
    /\ UNCHANGED <<m, m_old, perm, err, sys, argA, argB, lup, mx, nz, jb>>

\* main.cpp 563: the loop condition k < max_iter fails.
LoopExit ==
    /\ pc = "loop"
    /\ ~LoopCond(nw.k, nw.max_iter)
    /\ pc' = "report"
    /\ UNCHANGED <<nw, m, m_old, perm, err, sys, argA, argB, lup, mx, nz, jb>>

\* Variant of the Jacobian selection with the test of the method inverted.
AcquireJacobianSwapped ==
    /\ pc = "jacobian"
    /\ Carried
    /\ nw' = IF nw.method # "Newton"
             THEN IF nw.jacobian_mode = "Numeric"
                  THEN [nw EXCEPT !.J = build_jacobian(nw.numeric_formula, nw.x),
                                  !.n_jac = @ + 1, !.jac_k = nw.k]
                  ELSE [nw EXCEPT !.J = nw.J_manual, !.jac_k = nw.k]
             ELSE [nw EXCEPT !.J = nw.J_frozen, !.jac_k = nw.k]
    /\ pc' = "solve"
    /\ UNCHANGED <<m, m_old, perm, err, sys, argA, argB, lup, mx, nz, jb>>

\* main.cpp 576-593: the Jacobian of this iteration.
AcquireJacobian ==
    /\ pc = "jacobian"
    /\ Carried
    /\ nw' = IF nw.method = "Newton"
             THEN IF nw.jacobian_mode = "Numeric"
                  THEN [nw EXCEPT !.J = build_jacobian(nw.numeric_formula, nw.x),
                                  !.n_jac = @ + 1, !.jac_k = nw.k]
                  ELSE [nw EXCEPT !.J = nw.J_manual, !.jac_k = nw.k]
             ELSE [nw EXCEPT !.J = nw.J_frozen, !.jac_k = nw.k]
    /\ pc' = "solve"
    /\ UNCHANGED <<m, m_old, perm, err, sys, argA, argB, lup, mx, nz, jb>>

\* main.cpp 595: step = solve_step(J, fx); a throw reaches main's catch.
SolveStep ==
    /\ pc = "solve"
    /\ Carried
    /\ \E r \in {solve_step(nw.J, nw.fx)} :
          /\ nw' = [nw EXCEPT !.step = r.step, !.n_solve = @ + 1, !.solve_k = nw.k]
          /\ err' = r.err
          /\ pc' = IF r.status = "ok" THEN "test" ELSE "fatal"
    /\ UNCHANGED <<m, m_old, perm, sys, argA, argB, lup, mx, nz, jb>>

\* main.cpp 596-614: the norms, the step criterion, then the update of x and ++k.
StepTest ==
    /\ pc = "test"
    /\ Carried
    /\ IF StepBelow(norm_l2_sq(to_column_matrix(nw.step)), nw.eps_x,
                    norm_l2_sq(to_column_matrix(nw.x)))
       THEN /\ nw' = [nw EXCEPT !.converged = TRUE, !.message = "step"]
            /\ pc' = "report"
       ELSE /\ nw' = [nw EXCEPT !.x = damped_update(nw.x, nw.lambda, nw.step),
                                !.k = @ + 1, !.n_update = @ + 1,
                                !.n_step_fail = @ + 1]
            /\ pc' = "loop"
    /\ UNCHANGED <<m, m_old, perm, err, sys, argA, argB, lup, mx, nz, jb>>

\* main.cpp 616-623: the final residual and the printed result.
Report ==
    /\ pc = "report"
    /\ Carried
    /\ nw' = [nw EXCEPT !.report =
                [status |-> IF nw.converged THEN "converged" ELSE "not_converged",
                 x |-> nw.x,
                 fx_norm_sq |-> norm_l2_sq(compute_F(nw.x)),
                 iter_done |-> nw.iter_done]]
    /\ pc' = "done"
    /\ UNCHANGED <<m, m_old, perm, err, sys, argA, argB, lup, mx, nz, jb>>

NextNewton ==
    \/ NewtonSetup
    \/ ResidualTest
    \/ LoopExit
    \/ AcquireJacobian
    \/ SolveStep
    \/ StepTest
    \/ Report

SpecNewton == InitNewton /\ [][NextNewton]_vars

----------------------------------------------------------------------------
(* containers/array.hpp over a free store.  A pointer is an address         *)
(* 1..MaxAddr, or 0 for nullptr; a cell of the store is one new[] block.    *)

\* Number of blocks the free store can hold at a time.
MaxAddr == 3

\* Values an element that was never written can show: new type[n] leaves the
\* elements of an arithmetic type indeterminate.
Garbage == {0, 9}

FreeCell == [live |-> FALSE, elems |-> <<>>]
EmptyStore == [cells |-> [p \in 1..MaxAddr |-> FreeCell], ub |-> FALSE]

\* The contents a fresh block of n elements can show: the patterns of period
\* two over Garbage (all zero, all non-zero, and the two mixed ones).
Indeterminate(n) ==
    { [i \in 1..n |-> g[(i % 2) + 1]] : g \in Garbage \X Garbage }

\* new type[Len(contents)], already holding contents: the store and the pointer.
new_array(st, contents) ==
    LET p == CHOOSE q \in 1..MaxAddr :
                 /\ ~st.cells[q].live
                 /\ \A t \in 1..MaxAddr : ~st.cells[t].live => q <= t
    IN  [st |-> [st EXCEPT !.cells[p] = [live |-> TRUE, elems |-> contents]],
         ptr |-> p]

\* delete[] p: nothing for nullptr; a block that is not live is freed twice.
delete_array(st, p) ==
    IF p = 0 THEN st
    ELSE IF ~st.cells[p].live THEN [st EXCEPT !.ub = TRUE]
    ELSE [st EXCEPT !.cells[p] = FreeCell]

\* The elements m_data[0 .. m_size - 1] of an array object.
Elems(st, a) == IF a.m_size = 0 THEN <<>> ELSE st.cells[a.m_data].elems

\* array::array()
array_default == [m_data |-> 0, m_size |-> 0]

\* array::array(size): every content the fresh block can have.
array_sized(st, size) ==
    { [st |-> new_array(st, g).st,
       arr |-> [m_data |-> new_array(st, g).ptr, m_size |-> size]] :
          g \in Indeterminate(size) }

\* array::array(const array &obj)
array_copy(st, obj) ==
    [st |-> new_array(st, Elems(st, obj)).st,
     arr |-> [m_data |-> new_array(st, Elems(st, obj)).ptr, m_size |-> obj.m_size]]

\* array::clear()
array_clear(st, a) == [st |-> delete_array(st, a.m_data), arr |-> array_default]

\* array::fill(value)
array_fill(st, a, value) ==
    IF a.m_size = 0 \/ a.m_data = 0 THEN st
    ELSE [st EXCEPT !.cells[a.m_data].elems = [i \in 1..a.m_size |-> value]]

\* The block array::resize builds: the first copy_size elements of the old one,
\* the rest as g.
Resized(old, g, copy_size) ==
    [i \in 1..Len(g) |-> IF i <= copy_size THEN old[i] ELSE g[i]]

\* array::resize(new_size): every outcome.
array_resize(st, a, new_size) ==
    IF new_size = a.m_size THEN {[st |-> st, arr |-> a]}
    ELSE IF new_size = 0 THEN {array_clear(st, a)}
    ELSE { [st |-> delete_array(
                      new_array(st, Resized(Elems(st, a), g,
                          IF new_size < a.m_size THEN new_size ELSE a.m_size)).st,
                      a.m_data),
            arr |-> [m_data |-> new_array(st, g).ptr, m_size |-> new_size]] :
             g \in Indeterminate(new_size) }

\* array::operator=(const array &obj): the new block is built before the old
\* one is deleted; there is no test for self-assignment.
array_assign_copy(st, this, obj) ==
    [st |-> delete_array(new_array(st, Elems(st, obj)).st, this.m_data),
     arr |-> [m_data |-> new_array(st, Elems(st, obj)).ptr, m_size |-> obj.m_size]]

\* array::operator=(array &&obj) for this != &obj: the store and the target;
\* the source becomes array_default.
array_assign_move(st, this, obj) ==
    [st |-> delete_array(st, this.m_data), arr |-> obj]

\* array::operator[](idx): the exception.
array_index(a, idx) == IF idx >= a.m_size THEN "out_of_range" ELSE "none"

\* m_data[idx] = v through a reference obtained from operator[].
array_store(st, a, idx, v) == [st EXCEPT !.cells[a.m_data].elems[idx + 1] = v]

----------------------------------------------------------------------------
(* containers/matrix.hpp on the free store: a matrix object is its three    *)
(* members, m_data being an array object.  An operation gives the store,    *)
(* the object and the exception; one with a fresh block gives a set of such *)
(* outcomes.                                                                *)

Object(arr, r, c) == [m_data |-> arr, m_rows |-> r, m_cols |-> c]
Outcome(st, obj, e) == [st |-> st, obj |-> obj, err |-> e]

\* matrix::matrix()
matrix_default == Object(array_default, 0, 0)

\* matrix::matrix(rows, cols)
matrix_sized(st, r, c) ==
    { Outcome(o.st, Object(o.arr, r, c), "none") : o \in array_sized(st, r * c) }

\* matrix::matrix(const matrix &obj)
matrix_copy(st, obj) ==
    Outcome(array_copy(st, obj.m_data).st,
            Object(array_copy(st, obj.m_data).arr, obj.m_rows, obj.m_cols), "none")

\* The column count the nested-literal constructor settles on after rows
\* i.. of init, c being the count so far; -1 when it throws.
RECURSIVE LiteralCols(_, _, _)
LiteralCols(init, i, c) ==
    IF i > Len(init) THEN c
    ELSE IF c = 0 THEN LiteralCols(init, i + 1, Len(init[i]))
    ELSE IF Len(init[i]) # c THEN -1
    ELSE LiteralCols(init, i + 1, c)

\* The buffer after the writes (*this)(rr, cc) = val over a block that held g.
LiteralData(init, c, g) ==
    [k \in 1..Len(g) |->
        LET rr == (k - 1) \div c
            cc == (k - 1) % c
        IN  IF cc < Len(init[rr + 1]) THEN init[rr + 1][cc + 1] ELSE g[k]]

\* matrix::matrix(initializer_list<initializer_list<type>> init), for the
\* column count c the first loop found.
matrix_literal_cols(st, init, c) ==
    IF c = -1 THEN {Outcome(st, matrix_default, "invalid_argument")}
    ELSE IF Len(init) = 0 \/ c = 0 THEN {Outcome(st, matrix_default, "none")}
    ELSE { Outcome(new_array(st, LiteralData(init, c, g)).st,
                   Object([m_data |-> new_array(st, g).ptr, m_size |-> Len(init) * c],
                          Len(init), c),
                   "none") : g \in Indeterminate(Len(init) * c) }

matrix_literal(st, init) == matrix_literal_cols(st, init, LiteralCols(init, 1, 0))

\* matrix::matrix(const type *data, rows, cols): data is nullptr (null) or
\* points to the elements elems, at least rows * cols of them.
matrix_raw(st, data, r, c) ==
    IF r = 0 \/ c = 0 THEN Outcome(st, matrix_default, "none")
    ELSE IF data.null THEN Outcome(st, matrix_default, "invalid_argument")
    ELSE Outcome(new_array(st, SubSeq(data.elems, 1, r * c)).st,
                 Object([m_data |-> new_array(st, data.elems).ptr, m_size |-> r * c], r, c),
                 "none")

\* matrix::matrix(const array &row): row holds the elements elems.
matrix_row(st, elems) ==
    Outcome(new_array(st, elems).st,
            Object([m_data |-> new_array(st, elems).ptr, m_size |-> Len(elems)],
                   IF Len(elems) = 0 THEN 0 ELSE 1, Len(elems)),
            "none")

\* The rows of an initializer_list<array>, one after the other.
RECURSIVE Flattened(_, _)
Flattened(rs, i) == IF i > Len(rs) THEN <<>> ELSE rs[i] \o Flattened(rs, i + 1)

\* matrix::matrix(initializer_list<array<type>> rows)
matrix_rows(st, rs) ==
    IF Len(rs) = 0 THEN Outcome(st, matrix_default, "none")
    ELSE IF Len(rs[1]) = 0
    THEN IF \E i \in 1..Len(rs) : Len(rs[i]) # 0
         THEN Outcome(st, matrix_default, "invalid_argument")
         ELSE Outcome(st, Object(array_default, Len(rs), 0), "none")
    ELSE IF \E i \in 1..Len(rs) : Len(rs[i]) # Len(rs[1])
    THEN Outcome(st, matrix_default, "invalid_argument")
    ELSE Outcome(new_array(st, Flattened(rs, 1)).st,
                 Object([m_data |-> new_array(st, Flattened(rs, 1)).ptr,
                         m_size |-> Len(rs) * Len(rs[1])],
                        Len(rs), Len(rs[1])),
                 "none")

\* The object as a matrix value: shape and row-major elements.
Value(st, obj) == Matrix(obj.m_rows, obj.m_cols, Elems(st, obj.m_data))

\* matrix::clear()
matrix_clear(st, obj) ==
    Outcome(array_clear(st, obj.m_data).st, Object(array_default, 0, 0), "none")

\* matrix::fill(value)
matrix_fill(st, obj, value) == Outcome(array_fill(st, obj.m_data, value), obj, "none")

\* The block matrix::resize builds over fresh content g: the rows r < min_r
\* copied, min_c elements each.
ResizedRows(old, old_cols, g, new_cols, min_r, min_c) ==
    [k \in 1..Len(g) |->
        LET r == (k - 1) \div new_cols
            c == (k - 1) % new_cols
        IN  IF r < min_r /\ c < min_c THEN old[r * old_cols + c + 1] ELSE g[k]]

Min(x, y) == IF x < y THEN x ELSE y

\* matrix::resize(new_rows, new_cols): every outcome.
matrix_resize(st, obj, new_rows, new_cols) ==
    IF new_rows = obj.m_rows /\ new_cols = obj.m_cols THEN {Outcome(st, obj, "none")}
    ELSE IF new_rows = 0 \/ new_cols = 0 THEN {matrix_clear(st, obj)}
    ELSE { Outcome(
             array_assign_move(
                 new_array(st, ResizedRows(Elems(st, obj.m_data), obj.m_cols, g, new_cols,
                                           Min(new_rows, obj.m_rows),
                                           Min(new_cols, obj.m_cols))).st,
                 obj.m_data, array_default).st,
             Object([m_data |-> new_array(st, g).ptr, m_size |-> new_rows * new_cols],
                    new_rows, new_cols),
             "none") : g \in Indeterminate(new_rows * new_cols) }

\* matrix::row_permute / col_permute on an object: validation, then the
\* permuted block is moved into m_data (rows selects row_permute).
matrix_permute(st, obj, p, by_rows) ==
    LET e == PermCheck(p, IF by_rows THEN obj.m_rows ELSE obj.m_cols)
        v == IF by_rows THEN RowPermuted(Value(st, obj), p)
             ELSE ColPermuted(Value(st, obj), p)
    IN  IF e # "none" THEN Outcome(st, obj, e)
        ELSE IF obj.m_rows = 0 \/ obj.m_cols = 0 THEN Outcome(st, obj, "none")
        ELSE Outcome(array_assign_move(new_array(st, v.m_data).st,
                                       obj.m_data, array_default).st,
                     Object([m_data |-> new_array(st, v.m_data).ptr,
                             m_size |-> obj.m_data.m_size],
                            obj.m_rows, obj.m_cols),
                     "none")

\* Variant of operator() that checks the linear position only.
matrix_write_linear(st, obj, r, c, v) ==
    IF array_index(obj.m_data, r * obj.m_cols + c) # "none"
    THEN Outcome(st, obj, "out_of_range")
    ELSE Outcome(array_store(st, obj.m_data, r * obj.m_cols + c, v), obj, "none")

\* (*this)(r, c) = v: linear_index, then array::operator[].
matrix_write(st, obj, r, c, v) ==
    IF r >= obj.m_rows \/ c >= obj.m_cols THEN Outcome(st, obj, "out_of_range")
    ELSE IF array_index(obj.m_data, r * obj.m_cols + c) # "none"
    THEN Outcome(st, obj, "out_of_range")
    ELSE Outcome(array_store(st, obj.m_data, r * obj.m_cols + c, v), obj, "none")

\* (*this)(r, c) const: the exception and the element read (-1 for none).
matrix_read(st, obj, r, c) ==
    IF r >= obj.m_rows \/ c >= obj.m_cols THEN [err |-> "out_of_range", val |-> -1]
    ELSE IF array_index(obj.m_data, r * obj.m_cols + c) # "none"
    THEN [err |-> "out_of_range", val |-> -1]
    ELSE [err |-> "none", val |-> Elems(st, obj.m_data)[r * obj.m_cols + c + 1]]

\* Variant of the copy that shares the block of the source.
matrix_alias(st, this, obj) == Outcome(st, obj, "none")

\* matrix::operator=(const matrix &obj) for this != &obj.
matrix_assign_copy(st, this, obj) ==
    Outcome(array_assign_copy(st, this.m_data, obj.m_data).st,
            Object(array_assign_copy(st, this.m_data, obj.m_data).arr,
                   obj.m_rows, obj.m_cols),
            "none")

\* matrix::operator=(matrix &&obj) for this != &obj: the target; the source
\* becomes matrix_default.
matrix_assign_move(st, this, obj) ==
    Outcome(array_assign_move(st, this.m_data, obj.m_data).st,
            Object(array_assign_move(st, this.m_data, obj.m_data).arr,
                   obj.m_rows, obj.m_cols),
            "none")

----------------------------------------------------------------------------
(* Specification SpecMatrix: up to MaxOps operations on two matrix objects, *)
(* a and b, over one free store.  Object a is constructed from values and  *)
(* takes every member call; b is a copy of a or takes a's value by a move,  *)
(* and is written and assigned.                                             *)

\* Number of operations of a run.
MaxOps == 3

Names == {"a", "b"}

\* Row and column counts, row and column indices and permutation entries of
\* the arguments.
Dims == 0..2

\* Row counts of the nested literals.
LiteralRows == 0..3
WriteVals == {5}
FillVals == {0, 7}

\* Nested literals: the value at row i, place j is 10 * i + j.
LiteralOf(lens) == [i \in 1..Len(lens) |-> [j \in 1..lens[i] |-> 10 * i + j]]
Literals == {LiteralOf(lens) : lens \in UNION {[1..n -> Dims] : n \in LiteralRows}}

\* External buffers for the raw-pointer constructor.
RawBuffers == {[null |-> TRUE, elems |-> <<>>],
               [null |-> FALSE, elems |-> <<21, 22, 23, 24>>]}

\* The arrays given to matrix(const array &) and to matrix({array, ...}).
RowArrays == {[j \in 1..n |-> 30 + j] : n \in Dims}
RowLists == {LiteralOf(lens) : lens \in UNION {[1..n -> Dims] : n \in Dims}}

ObjPerms == UNION {[1..l -> Dims] : l \in Dims}

\* What the last operation was, and the values of both objects before it.
Last(op, on, from, args) ==
    [op |-> op, on |-> on, from |-> from, args |-> args,
     before |-> [n \in Names |-> Value(mx.st, mx.objs[n])],
     made |-> mx.made]

InitMatrix ==
    /\ pc = "matrix"
    /\ mx = [run |-> "matrix", st |-> EmptyStore,
             objs |-> [n \in Names |-> matrix_default],
             made |-> {}, n_ops |-> 0,
             last |-> [op |-> "none", on |-> "a", from |-> "a", args |-> <<>>,
                       before |-> [n \in Names |-> EmptyMatrix], made |-> {}]]
    /\ err = "none"
    /\ m = EmptyMatrix /\ m_old = EmptyMatrix /\ perm = <<>>
    /\ sys = NoSys /\ argA = EmptyMatrix /\ argB = EmptyMatrix
    /\ lup = NoLup /\ nw = NoNewton /\ nz = NoNormalize /\ jb = NoJacobian

\* The constructor call for object t ended with outcome o; a constructor that
\* throws leaves no object.
Constructed(t, o, l) ==
    /\ mx' = [mx EXCEPT !.st = o.st,
                        !.objs[t] = o.obj,
                        !.made = IF o.err = "none" THEN @ \cup {t} ELSE @,
                        !.n_ops = @ + 1, !.last = l]
    /\ err' = o.err
    /\ UNCHANGED <<pc, m, m_old, perm, sys, argA, argB, lup, nw, nz, jb>>

\* The member call on object t ended with outcome o.
Called(t, o, l) ==
    /\ mx' = [mx EXCEPT !.st = o.st, !.objs[t] = o.obj,
                        !.n_ops = @ + 1, !.last = l]
    /\ err' = o.err
    /\ UNCHANGED <<pc, m, m_old, perm, sys, argA, argB, lup, nw, nz, jb>>

\* The call moved object s into object t (t # s) and emptied s.
Moved(t, s, o, l) ==
    /\ mx' = [mx EXCEPT !.st = o.st,
                        !.objs = [@ EXCEPT ![t] = o.obj, ![s] = matrix_default],
                        !.made = @ \cup {t},
                        !.n_ops = @ + 1, !.last = l]
    /\ err' = o.err
    /\ UNCHANGED <<pc, m, m_old, perm, sys, argA, argB, lup, nw, nz, jb>>

\* A run makes at most MaxOps calls.
MayCall == mx.n_ops < MaxOps

\* matrix a; / matrix b;
MatrixDefault ==
    /\ MayCall
    /\ \E t \in Names \ mx.made :
           Constructed(t, Outcome(mx.st, matrix_default, "none"),
                       Last("matrix()", t, t, <<>>))

\* matrix a(rows, cols);
MatrixSized ==
    /\ MayCall
    /\ "a" \notin mx.made
    /\ \E r \in Dims, c \in Dims : \E o \in matrix_sized(mx.st, r, c) :
          Constructed("a", o, Last("matrix(rows,cols)", "a", "a", <<r, c>>))

\* matrix a{{...}, {...}};
MatrixLiteral ==
    /\ MayCall
    /\ "a" \notin mx.made
    /\ \E init \in Literals : \E o \in matrix_literal(mx.st, init) :
          Constructed("a", o, Last("matrix(literal)", "a", "a", init))

\* matrix a(data, rows, cols);
MatrixRaw ==
    /\ MayCall
    /\ "a" \notin mx.made
    /\ \E data \in RawBuffers, r \in Dims, c \in Dims :
          Constructed("a", matrix_raw(mx.st, data, r, c),
                      Last("matrix(data,rows,cols)", "a", "a", <<data, r, c>>))

\* matrix a(row);
MatrixRow ==
    /\ MayCall
    /\ "a" \notin mx.made
    /\ \E elems \in RowArrays :
          Constructed("a", matrix_row(mx.st, elems), Last("matrix(array)", "a", "a", elems))

\* matrix a{row0, row1, ...};
MatrixRows ==
    /\ MayCall
    /\ "a" \notin mx.made
    /\ \E rs \in RowLists :
          Constructed("a", matrix_rows(mx.st, rs), Last("matrix(arrays)", "a", "a", rs))

\* matrix b(a);
MatrixCopy ==
    /\ MayCall
    /\ "a" \in mx.made /\ "b" \notin mx.made
    /\ Constructed("b", matrix_copy(mx.st, mx.objs["a"]),
                   Last("matrix(const matrix&)", "b", "a", <<>>))

\* matrix b(std::move(a));
MatrixMove ==
    /\ MayCall
    /\ "a" \in mx.made /\ "b" \notin mx.made
    /\ Moved("b", "a", Outcome(mx.st, mx.objs["a"], "none"),
             Last("matrix(matrix&&)", "b", "a", <<>>))

\* t.clear();
Clear ==
    /\ MayCall
    /\ \E t \in mx.made \cap {"a"} :
           Called(t, matrix_clear(mx.st, mx.objs[t]), Last("clear", t, t, <<>>))

\* t.fill(value);
Fill ==
    /\ MayCall
    /\ \E t \in mx.made \cap {"a"}, v \in FillVals :
           Called(t, matrix_fill(mx.st, mx.objs[t], v), Last("fill", t, t, <<v>>))

\* t.resize(new_rows, new_cols);
Resize ==
    /\ MayCall
    /\ \E t \in mx.made \cap {"a"}, r \in Dims, c \in Dims :
           \E o \in matrix_resize(mx.st, mx.objs[t], r, c) :
               Called(t, o, Last("resize", t, t, <<r, c>>))

\* t.row_permute(perm);
RowPermute ==
    /\ MayCall
    /\ \E t \in mx.made \cap {"a"}, p \in ObjPerms :
           Called(t, matrix_permute(mx.st, mx.objs[t], p, TRUE),
                  Last("row_permute", t, t, p))

\* t.col_permute(perm);
ColPermute ==
    /\ MayCall
    /\ \E t \in mx.made \cap {"a"}, p \in ObjPerms :
           Called(t, matrix_permute(mx.st, mx.objs[t], p, FALSE),
                  Last("col_permute", t, t, p))

\* t(r, c) = v;
Write ==
    /\ MayCall
    /\ \E t \in mx.made, r \in Dims, c \in Dims, v \in WriteVals :
           Called(t, matrix_write(mx.st, mx.objs[t], r, c, v),
                  Last("write", t, t, <<r, c, v>>))

\* t(r, c) read through the const operator(); the element read is kept with
\* the arguments.
Read ==
    /\ MayCall
    /\ \E t \in mx.made, r \in Dims, c \in Dims :
           Called(t, Outcome(mx.st, mx.objs[t], matrix_read(mx.st, mx.objs[t], r, c).err),
                  Last("read", t, t, <<r, c, matrix_read(mx.st, mx.objs[t], r, c).val>>))

\* t = s;  (s may be t itself)
AssignCopy ==
    /\ MayCall
    /\ \E t \in mx.made, s \in mx.made :
           Called(t,
                  IF t = s THEN Outcome(mx.st, mx.objs[t], "none")
                  ELSE matrix_assign_copy(mx.st, mx.objs[t], mx.objs[s]),
                  Last("operator=(const matrix&)", t, s, <<>>))

\* t = std::move(s);  (s may be t itself)
AssignMove ==
    /\ MayCall
    /\ \E t \in mx.made, s \in mx.made :
           IF t = s
           THEN Called(t, Outcome(mx.st, mx.objs[t], "none"),
                       Last("operator=(matrix&&)", t, s, <<>>))
           ELSE Moved(t, s, matrix_assign_move(mx.st, mx.objs[t], mx.objs[s]),
                      Last("operator=(matrix&&)", t, s, <<>>))

NextMatrix ==
    \/ MatrixDefault
    \/ MatrixSized
    \/ MatrixLiteral
    \/ MatrixRaw
    \/ MatrixRow
    \/ MatrixRows
    \/ MatrixCopy
    \/ MatrixMove
    \/ Clear
    \/ Fill
    \/ Resize
    \/ RowPermute
    \/ ColPermute
    \/ Write
    \/ Read
    \/ AssignCopy
    \/ AssignMove

SpecMatrix == InitMatrix /\ [][NextMatrix]_vars

----------------------------------------------------------------------------
(* Oracles used by the properties (not part of the program).               *)

\* The matrix without row 0 and column j.
Minor0(M, j) ==
    LET n == M.m_rows
    IN  Matrix(n - 1, n - 1, [i \in 1..((n - 1) * (n - 1)) |->
            LET r == (i - 1) \div (n - 1)
                c == (i - 1) % (n - 1)
            IN  at(M, r + 1, IF c < j THEN c ELSE c + 1)])

\* Determinant by expansion along row 0, columns j..n-1.
RECURSIVE DetFrom(_, _)
DetFrom(M, j) ==
    IF M.m_rows = 0 THEN ROne
    ELSE IF j >= M.m_rows THEN RZero
    ELSE LET t == RMul(at(M, 0, j), DetFrom(Minor0(M, j), 0))
         IN  RAdd(IF j % 2 = 0 THEN t ELSE RNeg(t), DetFrom(M, j + 1))

Det(M) == DetFrom(M, 0)

\* p is a bijection on 0..dim-1 given as an array of length dim.
IsBijection(p, dim) ==
    /\ Len(p) = dim
    /\ {p[i] : i \in 1..Len(p)} = 0..(dim - 1)

LupLive == {"sys", "pivot", "forward", "backward", "returned", "singular", "permute_failed"}

----------------------------------------------------------------------------
(* Properties.                                                             *)

\* C1: for every invertible A and every b, solve_lup returns an n x 1 vector x
\* with A*x = b exactly; an invertible A never makes the solve fail.
C1_SolveLupSolves ==
    /\ pc = "returned" =>
          /\ lup.x.m_rows = sys.A.m_rows
          /\ lup.x.m_cols = 1
          /\ Len(lup.x.m_data) = sys.A.m_rows
          /\ LET Ax == matmul(sys.A, lup.x)
             IN  \A i \in 0..(sys.A.m_rows - 1) : at(Ax, i, 0) = vector_at(sys.b, i)
    /\ pc \in {"singular", "permute_failed"} => Det(sys.A) = RZero

C1_Witness ==
    /\ pc = "returned"
    /\ sys.A.m_rows = 3
    /\ lup.b_work # sys.b
    /\ \E i \in 1..3 : lup.x.m_data[i][2] > 1

\* C2: solve_lup fails with Singular exactly when, at some step k, every entry of
\* U(k..n-1, k) has magnitude <= eps; A = [[1,2],[2,4]], b = [1,3] fails with
\* Singular and returns no solution.
C2_SingularIff ==
    /\ pc = "singular" =>
          \A i \in lup.k..(lup.U_pre.m_rows - 1) : LeEps(RAbs(at(lup.U_pre, i, lup.k)))
    /\ (pc \in {"pivot", "forward", "backward", "returned"} /\ lup.k > 0) =>
          \E i \in (lup.k - 1)..(lup.U_pre.m_rows - 1) :
              ~LeEps(RAbs(at(lup.U_pre, i, lup.k - 1)))
    /\ (pc \in LupLive /\ sys.A = ScenarioA /\ sys.b = ScenarioB) =>
          /\ pc \notin {"forward", "backward", "returned", "permute_failed"}
          /\ lup.x = EmptyMatrix

C2_Witness ==
    /\ pc = "singular"
    /\ err = "invalid_argument"
    /\ sys.A = ScenarioA /\ sys.b = ScenarioB
    /\ lup.k = 1

\* C3: solve_lup never changes the system's A or b, at any point of the call,
\* whether it returns or fails with Singular after swaps and eliminations.
C3_SolveLupKeepsSystem ==
    pc \in LupLive => (sys.A = argA /\ sys.b = argB)

C3_Witness ==
    /\ pc = "singular"
    /\ lup.k >= 1
    /\ lup.b_work # sys.b
    /\ lup.U # sys.A
    /\ sys.A = argA /\ sys.b = argB

\* C4: row_permute / col_permute reject every perm of the wrong length, with an
\* index out of range or with a duplicate, and the matrix is then unchanged.
C4_BadPermRejected ==
    /\ (pc = "row_permute" /\ ~IsBijection(perm, m_old.m_rows)) =>
          (err # "none" /\ m = m_old)
    /\ (pc = "col_permute" /\ ~IsBijection(perm, m_old.m_cols)) =>
          (err # "none" /\ m = m_old)

C4_Witness ==
    /\ pc = "row_permute"
    /\ m_old = Labelled(3, 2)
    /\ perm = <<0, 2, 2>>
    /\ err = "invalid_argument"
    /\ m = m_old

\* C5: for a valid perm, row_permute gives new(r,c) = old(perm[r],c) and
\* col_permute gives new(r,c) = old(r,perm[c]), shape unchanged; the identity
\* permutation leaves the matrix equal to itself.
C5_PermuteResult ==
    /\ (pc = "row_permute" /\ IsBijection(perm, m_old.m_rows)) =>
          /\ err = "none"
          /\ m.m_rows = m_old.m_rows /\ m.m_cols = m_old.m_cols
          /\ Len(m.m_data) = Len(m_old.m_data)
          /\ \A r \in 0..(m.m_rows - 1) : \A c \in 0..(m.m_cols - 1) :
                at(m, r, c) = at(m_old, perm[r + 1], c)
          /\ (\A i \in 1..Len(perm) : perm[i] = i - 1) => m = m_old
    /\ (pc = "col_permute" /\ IsBijection(perm, m_old.m_cols)) =>
          /\ err = "none"
          /\ m.m_rows = m_old.m_rows /\ m.m_cols = m_old.m_cols
          /\ Len(m.m_data) = Len(m_old.m_data)
          /\ \A r \in 0..(m.m_rows - 1) : \A c \in 0..(m.m_cols - 1) :
                at(m, r, c) = at(m_old, r, perm[c + 1])
          /\ (\A i \in 1..Len(perm) : perm[i] = i - 1) => m = m_old

C5_Witness ==
    /\ pc = "col_permute"
    /\ m_old = Labelled(2, 3)
    /\ perm = <<1, 2, 0>>
    /\ err = "none"
    /\ m # m_old

\* C6: equation_system(A, b) is constructed only if A is n x n and b is 1 x n
\* or n x 1; every other pair of shapes fails with an error.
ShapesFit(A_, b_) ==
    /\ A_.m_rows = A_.m_cols
    /\ \/ (b_.m_rows = 1 /\ b_.m_cols = A_.m_rows)
       \/ (b_.m_cols = 1 /\ b_.m_rows = A_.m_rows)

C6_CtorInvariant ==
    /\ pc = "ctor_failed" => (~ShapesFit(argA, argB) /\ err = "invalid_argument")
    /\ pc \in LupLive =>
          /\ ShapesFit(argA, argB)
          /\ sys.A.m_rows = sys.A.m_cols
          /\ is_vector(sys.b)
          /\ vector_length(sys.b) = sys.A.m_rows

C6_Witness ==
    /\ pc = "ctor_failed"
    /\ argA.m_rows = 2 /\ argA.m_cols = 2
    /\ argB.m_rows = 1 /\ argB.m_cols = 3

----------------------------------------------------------------------------
(* Properties of the Newton driver.                                        *)

\* ||v||_2 < e, stated on the squares.
NormBelow(v, e) ==
    /\ e[1] > 0
    /\ LET sq == [i \in 1..Len(v) |-> RMul(v[i], v[i])]
           e2 == RMul(e, e)
       IN  RLt(IF Len(v) = 2 THEN RAdd(sq[1], sq[2]) ELSE RZero, e2)

\* C7: in every iteration the residual F(x_k) is evaluated first; if its norm is
\* below eps_F the run is Converged at once, with no Jacobian, no solve and no
\* change of x in that iteration.
C7_ResidualTestFirst ==
    /\ pc \in {"jacobian", "solve", "test", "fatal"} =>
          /\ nw.fx = compute_F(nw.x)
          /\ nw.iter_done = nw.k + 1
          /\ ~NormBelow(nw.fx.m_data, nw.eps_F)
    /\ nw.message = "residual" =>
          /\ pc \in {"report", "done"}
          /\ nw.converged
          /\ NormBelow(nw.fx.m_data, nw.eps_F)
          /\ nw.fx = compute_F(nw.x)
          /\ nw.x = nw.x_iter
          /\ nw.jac_k # nw.iter_done - 1
          /\ nw.solve_k # nw.iter_done - 1
    /\ (pc \in {"report", "done"} /\ nw.iter_done >= 1
           /\ NormBelow(compute_F(nw.x_iter).m_data, nw.eps_F)) =>
          nw.message = "residual"

C7_Witness ==
    /\ pc = "done"
    /\ nw.message = "residual"
    /\ nw.iter_done = 2
    /\ nw.n_solve = 1
    /\ nw.jac_k = 0

\* C8 (as claimed): the damped update is applied before the step test, so a run
\* stopped by the step criterion reports x_k + lambda * s_k.
C8_StepStopReportsUpdated ==
    (pc = "done" /\ nw.message = "step") =>
        \A i \in 1..Len(nw.x_iter) :
            nw.report.x[i] = RAdd(nw.x_iter[i], RMul(nw.lambda, nw.step[i]))

\* C9: x changes only by damped steps: an accepted step gives
\* x_{k+1} - x_k = lambda * s_k elementwise, lambda never changes, and no other
\* action of the driver changes x.
C9_OnlyDampedSteps ==
    [][ /\ nw'.lambda = nw.lambda
        /\ (nw'.x # nw.x) =>
              (pc = "test" /\ pc' = "loop" /\ nw'.k = nw.k + 1)
        /\ (pc = "test" /\ pc' = "loop") =>
              /\ nw'.step = nw.step
              /\ \A i \in 1..Len(nw.x) :
                    RSub(nw'.x[i], nw.x[i]) = RMul(nw.lambda, nw.step[i]) ]_vars

C9_Witness ==
    /\ pc = "loop"
    /\ nw.n_update = 2
    /\ nw.lambda = <<1, 2>>
    /\ nw.x # nw.x_iter
    /\ \A i \in 1..Len(nw.x) :
          RSub(nw.x[i], nw.x_iter[i]) = RMul(<<1, 2>>, nw.step[i])

\* C10: a run ends not converged exactly when max_iter iterations were executed
\* and both criteria failed in each; that outcome is a report (status, x, final
\* residual norm, iteration count), not an error, and differs from Converged
\* and from a fatal failure.
C10_MaxIterExceeded ==
    /\ pc = "done" =>
          /\ err = "none"
          /\ nw.report # NoReport
          /\ (nw.report.status = "not_converged") <=>
                (/\ nw.iter_done = nw.max_iter
                 /\ nw.n_res_fail = nw.max_iter
                 /\ nw.n_step_fail = nw.max_iter)
          /\ (nw.report.status = "not_converged") =>
                /\ ~nw.converged
                /\ nw.message = "none"
                /\ nw.report.x = nw.x
                /\ nw.report.iter_done = nw.max_iter
                /\ nw.report.fx_norm_sq = norm_l2_sq(compute_F(nw.x))
          /\ (nw.report.status = "converged") =>
                (nw.converged /\ nw.message \in {"residual", "step"})
    /\ pc = "fatal" => (err # "none" /\ nw.report = NoReport /\ ~nw.converged)

C10_Witness ==
    /\ pc = "done"
    /\ nw.report.status = "not_converged"
    /\ nw.max_iter = 2
    /\ nw.n_update = 2
    /\ nw.x # nw.x0

----------------------------------------------------------------------------
\* The run has ended: the report is printed or main's catch was reached.
Terminated == pc \in {"done", "fatal"}

\* A step taken after the loop was left does no work of the loop.
LoopLeftForGood ==
    pc \in {"report", "done", "fatal"} =>
        /\ pc' \in {"done", "fatal"}
        /\ nw'.n_F = nw.n_F /\ nw'.n_jac = nw.n_jac
        /\ nw'.n_solve = nw.n_solve /\ nw'.n_update = nw.n_update
        /\ nw'.x = nw.x /\ nw'.k = nw.k /\ nw'.iter_done = nw.iter_done

\* The number of steps a run can still take is at most Rank: five per
\* iteration not yet begun, and the position inside the current one.
Rank ==
    CASE pc = "setup"    -> 5 * (nw.max_iter - nw.k) + 5
      [] pc = "loop"     -> 5 * (nw.max_iter - nw.k) + 4
      [] pc = "jacobian" -> 5 * (nw.max_iter - nw.k) + 3
      [] pc = "solve"    -> 5 * (nw.max_iter - nw.k) + 2
      [] pc = "test"     -> 5 * (nw.max_iter - nw.k) + 1
      [] pc = "report"   -> 1
      [] OTHER           -> 0

\* Every step of a run lowers Rank, and a step after the loop was left does
\* no work of the loop.
RunAdvances ==
    /\ LoopLeftForGood
    /\ Rank >= 0 /\ Rank' >= 0
    /\ Rank' < Rank

\* C11: every Newton run ends after at most max_iter iterations (each step
\* lowers a bounded measure that is never negative), in exactly one of
\* Converged, MaxIterExceeded or a fatal error; once the loop is left there is
\* no further residual evaluation of the loop, Jacobian build, solve or
\* update of x.
C11_Terminates ==
    /\ [](/\ nw.iter_done <= nw.max_iter
          /\ nw.k <= nw.max_iter
          /\ nw.n_F <= nw.max_iter
          /\ nw.n_solve <= nw.max_iter
          /\ nw.n_update <= nw.max_iter
          /\ (Rank = 0 <=> Terminated)
          /\ (pc = "done" =>
                 /\ err = "none"
                 /\ \/ nw.report.status = "converged" /\ nw.converged
                    \/ /\ nw.report.status = "not_converged"
                       /\ ~nw.converged
                       /\ nw.iter_done = nw.max_iter)
          /\ (pc = "fatal" => err # "none" /\ nw.report = NoReport /\ ~nw.converged))
    /\ [][RunAdvances]_vars

\* A run that converged by the step criterion in its last allowed iteration.
C11_Witness ==
    /\ pc = "done"
    /\ nw.report.status = "converged"
    /\ nw.message = "step"
    /\ nw.max_iter = MaxIter
    /\ nw.iter_done = nw.max_iter

\* C12: when the linear solve of iteration k fails with Singular the run is
\* aborted: x is the iterate the iteration started with, no later iteration
\* or step is taken, and nothing is reported; a solve that did not fail had a
\* regular Jacobian.
C12_SingularAborts ==
    /\ (pc = "fatal" =>
           /\ Det(nw.J) = RZero
           /\ err = "invalid_argument"
           /\ nw.solve_k = nw.k /\ nw.iter_done = nw.k + 1
           /\ nw.n_update = nw.k /\ nw.x = nw.x_iter
           /\ nw.n_solve = nw.k + 1
           /\ nw.report = NoReport /\ ~nw.converged
           /\ ~ENABLED NextNewton)
    /\ (pc = "test" => Det(nw.J) # RZero /\ err = "none")

\* A numeric Jacobian that is singular at x0, in a run that was allowed
\* further iterations.
C12_Witness ==
    /\ pc = "fatal"
    /\ nw.jacobian_mode = "Numeric"
    /\ nw.max_iter = MaxIter
    /\ nw.n_solve = 1

----------------------------------------------------------------------------
(* Properties of the matrix container, under SpecMatrix.                   *)

\* The value of object n now and before the last call.
Now(n) == Value(mx.st, mx.objs[n])
Before(n) == mx.last.before[n]

\* C13: a matrix constructed with explicit (rows, cols) has every one of its
\* rows * cols elements equal to zero right after construction.
C13_SizedIsZero ==
    mx.last.op = "matrix(rows,cols)" =>
        /\ Now("a").m_rows = mx.last.args[1]
        /\ Now("a").m_cols = mx.last.args[2]
        /\ Len(Now("a").m_data) = mx.last.args[1] * mx.last.args[2]
        /\ \A i \in 1..Len(Now("a").m_data) : Now("a").m_data[i] = 0

\* The rows of a nested literal are not all of the same length.
Ragged(init) == \E i \in 1..Len(init), j \in 1..Len(init) : Len(init[i]) # Len(init[j])

\* C14: the nested-literal constructor fails whenever the rows of the literal
\* are not all of the same length, wherever the differing row stands; when it
\* succeeds the matrix has r rows and c columns and element (i, j) is the
\* j-th value of the i-th row (a literal without values gives the empty
\* matrix).
C14_LiteralChecked ==
    mx.last.op = "matrix(literal)" =>
        IF Ragged(mx.last.args)
        THEN err = "invalid_argument" /\ "a" \notin mx.made
        ELSE /\ err = "none" /\ "a" \in mx.made
             /\ Now("a").m_cols = IF Len(mx.last.args) = 0 THEN 0
                                  ELSE Len(mx.last.args[1])
             /\ Now("a").m_cols # 0 => Now("a").m_rows = Len(mx.last.args)
             /\ \A i \in 1..Len(mx.last.args) : \A j \in 1..Len(mx.last.args[i]) :
                    at(Now("a"), i - 1, j - 1) = mx.last.args[i][j]

\* C15: element access (r, c), read or write, fails with out_of_range when
\* r >= rows or c >= cols and leaves the matrix as it was; otherwise it refers
\* to the element at row-major position r * cols + c, and a write changes
\* that element only.
C15_AccessChecked ==
    mx.last.op \in {"write", "read"} =>
        /\ \A n \in Names \ {mx.last.on} : Now(n) = Before(n)
        /\ IF \/ mx.last.args[1] >= Before(mx.last.on).m_rows
              \/ mx.last.args[2] >= Before(mx.last.on).m_cols
           THEN err = "out_of_range" /\ Now(mx.last.on) = Before(mx.last.on)
           ELSE /\ err = "none"
                /\ mx.last.op = "write" =>
                       Now(mx.last.on) =
                           [Before(mx.last.on) EXCEPT
                               !.m_data[mx.last.args[1] * Before(mx.last.on).m_cols
                                        + mx.last.args[2] + 1] = mx.last.args[3]]
                /\ mx.last.op = "read" =>
                       /\ Now(mx.last.on) = Before(mx.last.on)
                       /\ mx.last.args[3] =
                              Before(mx.last.on).m_data[
                                  mx.last.args[1] * Before(mx.last.on).m_cols
                                  + mx.last.args[2] + 1]

\* A write into the second row of a 2 x 2 matrix, and a rejected access.
C15_Witness ==
    /\ mx.last.op = "write"
    /\ err = "none"
    /\ Before(mx.last.on).m_rows = 2 /\ Before(mx.last.on).m_cols = 2
    /\ mx.last.args[1] = 1 /\ mx.last.args[2] = 0
    /\ Now(mx.last.on) # Before(mx.last.on)

\* C16: after resize(newRows, newCols) with both non-zero the shape is
\* newRows x newCols, element (r, c) is the old element (r, c) on the common
\* region, and every other element is zero.
C16_ResizeZeroFills ==
    (mx.last.op = "resize" /\ mx.last.args[1] # 0 /\ mx.last.args[2] # 0) =>
        /\ Now("a").m_rows = mx.last.args[1]
        /\ Now("a").m_cols = mx.last.args[2]
        /\ Len(Now("a").m_data) = mx.last.args[1] * mx.last.args[2]
        /\ \A r \in 0..(mx.last.args[1] - 1), c \in 0..(mx.last.args[2] - 1) :
               at(Now("a"), r, c) =
                   IF r < Before("a").m_rows /\ c < Before("a").m_cols
                   THEN at(Before("a"), r, c)
                   ELSE 0

\* C17: after resize the i-th element of the new row-major buffer equals the
\* i-th element of the old one for every i < min(old size, new size).
C17_ResizeKeepsPrefix ==
    mx.last.op = "resize" =>
        \A i \in 1..Min(Len(Before("a").m_data), Len(Now("a").m_data)) :
            Now("a").m_data[i] = Before("a").m_data[i]

\* C18: after any sequence of operations the buffer length is rows * cols,
\* and a matrix with rows = 0 or cols = 0 is empty and holds no buffer.
C18_BufferInvariant ==
    \A n \in mx.made :
        /\ mx.objs[n].m_data.m_size = mx.objs[n].m_rows * mx.objs[n].m_cols
        /\ (mx.objs[n].m_rows = 0 \/ mx.objs[n].m_cols = 0) =>
               /\ mx.objs[n].m_data.m_size = 0
               /\ mx.objs[n].m_data.m_data = 0

\* No block is owned by two objects, every owned block is live and as long as
\* its owner says, and no block was deleted twice.
Owned ==
    /\ ~mx.st.ub
    /\ \A n \in Names :
          mx.objs[n].m_data.m_data # 0 =>
              /\ mx.st.cells[mx.objs[n].m_data.m_data].live
              /\ Len(mx.st.cells[mx.objs[n].m_data.m_data].elems)
                     = mx.objs[n].m_data.m_size
              /\ \A k \in Names \ {n} :
                     mx.objs[k].m_data.m_data # mx.objs[n].m_data.m_data

CopyOps == {"matrix(const matrix&)", "operator=(const matrix&)"}
MoveOps == {"matrix(matrix&&)", "operator=(matrix&&)"}

\* C19: a copy (copy construction, copy assignment, self-assignment too) is
\* an independent object with the value of the source: the two own different
\* blocks and a later call on one leaves the other as it was; a move gives
\* the target the source's shape and elements and leaves the source with
\* rows = 0, cols = 0 and size = 0.
C19_CopyMove ==
    /\ Owned
    /\ mx.last.op \in CopyOps =>
           /\ Now(mx.last.on) = Before(mx.last.from)
           /\ Now(mx.last.from) = Before(mx.last.from)
    /\ (mx.last.op \in MoveOps /\ mx.last.on # mx.last.from) =>
           /\ Now(mx.last.on) = Before(mx.last.from)
           /\ mx.objs[mx.last.from].m_rows = 0
           /\ mx.objs[mx.last.from].m_cols = 0
           /\ mx.objs[mx.last.from].m_data.m_size = 0
    /\ (mx.last.op \in MoveOps /\ mx.last.on = mx.last.from) =>
           Now(mx.last.on) = Before(mx.last.on)
    /\ mx.last.op \notin (CopyOps \cup MoveOps) =>
           \A n \in Names \ {mx.last.on} : Now(n) = Before(n)

\* b was copied from a 2 x 2 matrix a, then a was written: b kept the value.
C19_Witness ==
    /\ mx.last.op = "write" /\ mx.last.on = "a" /\ err = "none"
    /\ "b" \in mx.made
    /\ Now("b").m_rows = 2 /\ Now("b").m_cols = 2
    /\ Before("a") = Now("b")
    /\ Now("a") # Now("b")

----------------------------------------------------------------------------
(* normalize_l1 / normalize_l2 (linalg.hpp) on vectors of whole numbers.   *)
(* A norm is kept exactly: the L1 norm as the sum, the L2 norm as the      *)
(* square root of the accumulated sum of squares.                          *)

NormDims == 0..2
NormVals == {-2, 0, 1}
NormEps == {<<0, 1>>, <<3, 2>>, <<2, 1>>}
NormKinds == {"l1", "l2"}

NotAVectorWhat == "Expected a vector (1xN or Nx1)"
TooSmallWhat == "vector norm is too small (division by zero protection)"

\* The accumulation loops of norm_l1 and norm_l2 over a.data()[0 .. size).
RECURSIVE norm_acc(_, _, _)
norm_acc(kind, d, i) ==
    IF i = 0 THEN 0
    ELSE norm_acc(kind, d, i - 1) + (IF kind = "l1" THEN Abs(d[i]) ELSE d[i] * d[i])

\* norm_l1 returns acc, norm_l2 returns std::sqrt(acc).
norm_of(kind, v) ==
    [root |-> (kind = "l2"), acc |-> norm_acc(kind, v.m_data, Len(v.m_data))]

\* n < eps for a norm n >= 0.
NormLt(n, eps) ==
    IF n.root THEN RLt(RZero, eps) /\ RLt(RInt(n.acc), RMul(eps, eps))
    ELSE RLt(RInt(n.acc), eps)

\* The test n <= eps of normalize_l1 / normalize_l2.
NormLe(n, eps) ==
    IF n.root THEN RLe(RZero, eps) /\ RLe(RInt(n.acc), RMul(eps, eps))
    ELSE RLe(RInt(n.acc), eps)

\* v.data()[i] / n, for n > 0: its sign and its magnitude, the magnitude
\* squared when n is a square root.
Quotient(x, n) ==
    [sgn |-> IF x < 0 THEN -1 ELSE IF x = 0 THEN 0 ELSE 1,
     mag |-> IF n.root THEN Rat(x * x, n.acc) ELSE Rat(Abs(x), n.acc),
     squared |-> n.root]

\* The loop that fills out(v.rows(), v.cols()).
normalized(v, n) ==
    Matrix(v.m_rows, v.m_cols, [i \in 1..Len(v.m_data) |-> Quotient(v.m_data[i], n)])

NoNorm == [root |-> FALSE, acc |-> -1]

InitNormalize ==
    /\ pc = "vector_length"
    /\ \E r \in NormDims, c \in NormDims, kind \in NormKinds, eps \in NormEps :
           \E d \in [1..(r * c) -> NormVals] :
               nz = [run |-> kind, v |-> Matrix(r, c, d), v_in |-> Matrix(r, c, d),
                     eps |-> eps, n |-> NoNorm, out |-> EmptyMatrix, what |-> "none"]
    /\ err = "none"
    /\ m = EmptyMatrix /\ m_old = EmptyMatrix /\ perm = <<>>
    /\ sys = NoSys /\ argA = EmptyMatrix /\ argB = EmptyMatrix
    /\ lup = NoLup /\ nw = NoNewton /\ mx = NoObjects /\ jb = NoJacobian

\* (void)vector_length(v);
VectorLength ==
    /\ pc = "vector_length"
    /\ IF vector_length(nz.v) = -1
       THEN /\ pc' = "thrown"
            /\ err' = "invalid_argument"
            /\ nz' = [nz EXCEPT !.what = NotAVectorWhat]
       ELSE /\ pc' = "norm"
            /\ UNCHANGED <<err, nz, jb>>
    /\ UNCHANGED <<m, m_old, perm, sys, argA, argB, lup, nw, mx, jb>>

\* const norm_t n = norm_l1(v) or norm_l2(v);
Norm ==
    /\ pc = "norm"
    /\ pc' = "compare"
    /\ nz' = [nz EXCEPT !.n = norm_of(nz.run, nz.v)]
    /\ UNCHANGED <<m, m_old, perm, err, sys, argA, argB, lup, nw, mx, jb>>

\* if (n <= eps) throw std::invalid_argument(...);
Compare ==
    /\ pc = "compare"
    /\ IF NormLe(nz.n, nz.eps)
       THEN /\ pc' = "thrown"
            /\ err' = "invalid_argument"
            /\ nz' = [nz EXCEPT !.what = TooSmallWhat]
       ELSE /\ pc' = "divide"
            /\ UNCHANGED <<err, nz, jb>>
    /\ UNCHANGED <<m, m_old, perm, sys, argA, argB, lup, nw, mx, jb>>

\* matrix<T> out(v.rows(), v.cols()); the loop; return out;
Divide ==
    /\ pc = "divide"
    /\ pc' = "returned"
    /\ nz' = [nz EXCEPT !.out = normalized(nz.v, nz.n)]
    /\ UNCHANGED <<m, m_old, perm, err, sys, argA, argB, lup, nw, mx, jb>>

NextNormalize == VectorLength \/ Norm \/ Compare \/ Divide

SpecNormalize == InitNormalize /\ [][NextNormalize]_vars

----------------------------------------------------------------------------
(* main.cpp: build_jacobian_two_point and build_jacobian_three_point, one   *)
(* call of compute_F at a time.  jb.n_F counts the calls and jb.points      *)
(* lists their arguments in the order of the calls; jb.x_in is the array    *)
(* the caller passed, as it was at the call.                                *)

\* Largest magnitude of a coordinate of the array the build is called with.
MaxX == 1

\* Arrays x the build is called with.
JacXs == { <<RInt(a), RInt(b)>> : a \in -MaxX..MaxX, b \in -MaxX..MaxX }

\* Both coordinates moved by d, where the source moves coordinate j alone.
perturbed_all(x, j, d) == [t \in 1..Len(x) |-> RAdd(x[t], d)]

\* miv::array<T> x_plus = x; x_plus[j] += d;   (x_minus with d = -h)
perturbed(x, j, d) == [x EXCEPT ![j + 1] = RAdd(@, d)]

\* miv::matrix<T> J(n, n): the elements are not initialized.
InitJacobian ==
    /\ err = "none"
    /\ m = EmptyMatrix /\ m_old = EmptyMatrix /\ perm = <<>>
    /\ sys = NoSys /\ argA = EmptyMatrix /\ argB = EmptyMatrix
    /\ lup = NoLup /\ nw = NoNewton /\ mx = NoObjects /\ nz = NoNormalize
    /\ \E formula \in Formulas, x \in JacXs,
          g \in Indeterminate(NFunctions * NFunctions) :
          /\ jb = [run |-> formula, x |-> x, x_in |-> x, j |-> 0,
                   J |-> Matrix(NFunctions, NFunctions,
                                [c \in 1..(NFunctions * NFunctions) |-> RInt(g[c])]),
                   fx |-> EmptyMatrix, f_plus |-> EmptyMatrix, f_minus |-> EmptyMatrix,
                   n_F |-> 0, points |-> <<>>]
          /\ pc = IF formula = "TwoPoint" THEN "base" ELSE "plus"

\* const auto fx = compute_F(x, functions);          (two-point only)
JacobianBase ==
    /\ pc = "base"
    /\ jb' = [jb EXCEPT !.fx = compute_F(jb.x),
                        !.n_F = @ + 1,
                        !.points = Append(@, jb.x)]
    /\ pc' = IF jb.j < NFunctions THEN "plus" ELSE "returned"
    /\ UNCHANGED <<m, m_old, perm, err, sys, argA, argB, lup, nw, mx, nz>>

\* x_plus = x; x_plus[j] += h; f_plus = compute_F(x_plus, functions);
EvalPlus ==
    /\ pc = "plus"
    /\ \E x_plus \in {perturbed(jb.x, jb.j, StepH(jb.x[jb.j + 1]))} :
          jb' = [jb EXCEPT !.f_plus = compute_F(x_plus),
                           !.n_F = @ + 1,
                           !.points = Append(@, x_plus)]
    /\ pc' = IF jb.run = "ThreePoint" THEN "minus" ELSE "fill"
    /\ UNCHANGED <<m, m_old, perm, err, sys, argA, argB, lup, nw, mx, nz>>

\* x_minus = x; x_minus[j] -= h; f_minus = compute_F(x_minus, functions);
EvalMinus ==
    /\ pc = "minus"
    /\ \E x_minus \in {perturbed(jb.x, jb.j, RNeg(StepH(jb.x[jb.j + 1])))} :
          jb' = [jb EXCEPT !.f_minus = compute_F(x_minus),
                           !.n_F = @ + 1,
                           !.points = Append(@, x_minus)]
    /\ pc' = "fill"
    /\ UNCHANGED <<m, m_old, perm, err, sys, argA, argB, lup, nw, mx, nz>>

\* J(i, j) of the inner loop: (f_plus - fx) / h, or (f_plus - f_minus) / (2 h).
Quot(run, f_plus, f_minus, fx, i, h) ==
    IF run = "TwoPoint"
    THEN RDiv(RSub(at(f_plus, i, 0), at(fx, i, 0)), h)
    ELSE RDiv(RSub(at(f_plus, i, 0), at(f_minus, i, 0)), RMul(RInt(2), h))

\* for (i = 0; i < n; ++i) J(i, j) = ...;  then ++j, and return J after the
\* last column.
FillColumn ==
    /\ pc = "fill"
    /\ jb' = [jb EXCEPT
                 !.J = Matrix(@.m_rows, @.m_cols,
                         [c \in 1..(NFunctions * NFunctions) |->
                             IF (c - 1) % NFunctions = jb.j
                             THEN Quot(jb.run, jb.f_plus, jb.f_minus, jb.fx,
                                       (c - 1) \div NFunctions,
                                       StepH(jb.x[jb.j + 1]))
                             ELSE @.m_data[c]]),
                 !.j = @ + 1]
    /\ pc' = IF jb.j + 1 < NFunctions THEN "plus" ELSE "returned"
    /\ UNCHANGED <<m, m_old, perm, err, sys, argA, argB, lup, nw, mx, nz>>

NextJacobian == JacobianBase \/ EvalPlus \/ EvalMinus \/ FillColumn

SpecJacobian == InitJacobian /\ [][NextJacobian]_vars

\* The sum of |x| (kind "l1") or of x * x (kind "l2") over the elements.
RECURSIVE SumOver(_, _)
SumOver(kind, d) ==
    IF d = <<>> THEN 0
    ELSE (IF kind = "l1" THEN Abs(Head(d)) ELSE Head(d) * Head(d)) + SumOver(kind, Tail(d))

\* The norm of the input is at most eps = p / q: sum <= p / q for the L1
\* norm, and p >= 0 with sum of squares <= p * p / (q * q) for the L2 norm.
Degenerate ==
    IF nz.run = "l1"
    THEN SumOver("l1", nz.v.m_data) * nz.eps[2] <= nz.eps[1]
    ELSE /\ nz.eps[1] >= 0
         /\ SumOver("l2", nz.v.m_data) * nz.eps[2] * nz.eps[2] <= nz.eps[1] * nz.eps[1]

\* C20: normalize_l1 and normalize_l2 fail with the not-a-vector error when
\* neither dimension of the input is 1, and with the degenerate-norm error
\* when the input is a vector whose norm is <= eps (the all-zero vector and
\* the vector of length 0 included); in both cases the input is unchanged and
\* no result is produced, and the vector test comes before the norm test.
C20_NormalizeFails ==
    /\ nz.v = nz.v_in
    /\ pc \in {"norm", "compare", "divide", "returned"} =>
           (nz.v.m_rows = 1 \/ nz.v.m_cols = 1)
    /\ pc \in {"divide", "returned"} => ~Degenerate
    /\ pc = "returned" =>
           /\ err = "none"
           /\ \E i \in 1..Len(nz.v.m_data) : nz.v.m_data[i] # 0
           /\ nz.out.m_rows = nz.v.m_rows /\ nz.out.m_cols = nz.v.m_cols
    /\ pc # "returned" => nz.out = EmptyMatrix
    /\ pc = "thrown" =>
           /\ err = "invalid_argument"
           /\ IF nz.v.m_rows # 1 /\ nz.v.m_cols # 1
              THEN nz.what = NotAVectorWhat /\ nz.n = NoNorm
              ELSE nz.what = TooSmallWhat /\ Degenerate

\* normalize_l2 rejected the vector (1, 1) for eps = 3/2, which its L1 norm
\* exceeds.
C20_Witness ==
    /\ pc = "thrown"
    /\ nz.run = "l2"
    /\ nz.what = TooSmallWhat
    /\ nz.v = Matrix(1, 2, <<1, 1>>)
    /\ nz.eps = <<3, 2>>

----------------------------------------------------------------------------
(* Further properties of the Newton driver.                                *)

\* C21: in a ModifiedNewton run and in a Newton run with a Manual Jacobian the
\* linear solve uses the same matrix in every iteration: for ModifiedNewton
\* with a Numeric Jacobian it is built exactly once, at x_0 and before the
\* first iteration, and never rebuilt; for Manual it is the supplied matrix
\* and no numeric Jacobian is ever built.
C21_SameJacobian ==
    /\ nw.jacobian_mode = "Manual" =>
           /\ nw.n_jac = 0
           /\ pc \in {"solve", "test", "fatal"} => nw.J = nw.J_manual
    /\ (nw.method = "ModifiedNewton" /\ nw.jacobian_mode = "Numeric") =>
           /\ pc = "setup" => (nw.n_jac = 0 /\ nw.n_F = 0 /\ nw.x = nw.x0)
           /\ pc # "setup" =>
                  /\ nw.n_jac = 1
                  /\ nw.J_frozen = build_jacobian(nw.numeric_formula, nw.x0)
           /\ pc \in {"solve", "test", "fatal"} =>
                  nw.J = build_jacobian(nw.numeric_formula, nw.x0)

\* The second solve of a ModifiedNewton run is about to use the Jacobian built
\* at x_0, although x has moved and the Jacobian at x is another matrix.
C21_Witness ==
    /\ pc = "solve"
    /\ nw.method = "ModifiedNewton" /\ nw.jacobian_mode = "Numeric"
    /\ nw.k = 1
    /\ nw.x # nw.x0
    /\ nw.J = build_jacobian(nw.numeric_formula, nw.x0)
    /\ nw.J # build_jacobian(nw.numeric_formula, nw.x)

\* C22: in a Newton run with a Numeric Jacobian the Jacobian is rebuilt at the
\* current iterate in every iteration that does not stop at the residual
\* test: as many builds as linear solves attempted, the k-th build at x_k,
\* the iterate after k accepted updates.
C22_RebuiltEachIteration ==
    (nw.method = "Newton" /\ nw.jacobian_mode = "Numeric") =>
        /\ pc \in {"setup", "loop", "report", "done", "test", "fatal"} =>
               nw.n_jac = nw.n_solve
        /\ pc = "jacobian" =>
               (nw.n_jac = nw.n_solve /\ nw.n_jac = nw.k /\ nw.n_res_fail = nw.k + 1)
        /\ pc = "solve" => (nw.n_jac = nw.n_solve + 1 /\ nw.n_jac = nw.k + 1)
        /\ pc \in {"solve", "test", "fatal"} =>
               /\ nw.jac_k = nw.k
               /\ nw.n_update = nw.k
               /\ nw.n_jac = nw.n_res_fail
               /\ nw.J = build_jacobian(nw.numeric_formula, nw.x)

\* The second build of a Newton run, at an iterate other than x_0.
C22_Witness ==
    /\ pc = "solve"
    /\ nw.method = "Newton" /\ nw.jacobian_mode = "Numeric"
    /\ nw.k = 1 /\ nw.n_jac = 2
    /\ nw.x # nw.x0
    /\ nw.J # build_jacobian(nw.numeric_formula, nw.x0)

----------------------------------------------------------------------------
(* Further properties of the LUP decomposition.  After a pivot step lup.k   *)
(* has advanced unless the step threw; lup.U_pre is U as the step found it. *)

\* The column the last pivot step worked on.
LastK == IF pc = "singular" THEN lup.k ELSE lup.k - 1

\* A pivot step has been made.
Stepped ==
    \/ pc = "singular"
    \/ (pc \in {"pivot", "forward", "backward", "returned"} /\ lup.k > 0)

\* |U_pre(i, LastK)|
Mag(i) == RAbs(at(lup.U_pre, i, LastK))

\* C23: at each elimination step k the pivot row is the first row i in
\* k..n-1 whose |U(i, k)| is maximal: among rows of equal maximal magnitude the
\* lowest index wins, and no swap is done when row k itself attains the
\* maximum.
C23_FirstMaximalPivot ==
    Stepped =>
        /\ lup.pivot \in LastK..(lup.U_pre.m_rows - 1)
        /\ \A i \in LastK..(lup.U_pre.m_rows - 1) : RLe(Mag(i), Mag(lup.pivot))
        /\ \A i \in LastK..(lup.pivot - 1) : RLt(Mag(i), Mag(lup.pivot))
        /\ (\A i \in LastK..(lup.U_pre.m_rows - 1) : RLe(Mag(i), Mag(LastK))) =>
               lup.pivot = LastK
        /\ pc # "singular" =>
               \A j \in 0..(lup.U.m_cols - 1) :
                   at(lup.U, LastK, j) = at(lup.U_pre, lup.pivot, j)

\* Column 0 of a 3 x 3 matrix holds its largest magnitude in rows 1 and 2 and
\* a smaller one in row 0: row 1 was taken.
C23_Witness ==
    /\ pc = "pivot"
    /\ lup.k = 1
    /\ lup.U_pre.m_rows = 3
    /\ RLt(RAbs(at(lup.U_pre, 0, 0)), RAbs(at(lup.U_pre, 1, 0)))
    /\ RAbs(at(lup.U_pre, 1, 0)) = RAbs(at(lup.U_pre, 2, 0))
    /\ at(lup.U_pre, 1, 0) # at(lup.U_pre, 2, 0)
    /\ lup.pivot = 1

\* C24: when lu_decompose_lup succeeds L is unit lower triangular, U is upper
\* triangular and L*U = P*A, P being the composition of the row swaps made,
\* and the working right-hand side is P*b.  A swap at step k exchanges in L
\* only entries of columns 0..k-1, so the diagonal and the upper part of L are
\* as in the identity at every step.  The product is compared in the state
\* lu_decompose_lup returns in; the substitutions change neither L nor U.
C24_Factorization ==
    pc \in {"pivot", "forward", "backward", "returned", "singular"} =>
        /\ IsBijection(lup.P, sys.A.m_rows)
        /\ \A i \in 0..(lup.L.m_rows - 1) : \A j \in 0..(lup.L.m_rows - 1) :
               /\ i = j => at(lup.L, i, j) = ROne
               /\ i < j => at(lup.L, i, j) = RZero
               /\ (i > j /\ j >= lup.k) => at(lup.L, i, j) = RZero
               /\ (i > j /\ j < lup.k) => at(lup.U, i, j) = RZero
        /\ pc = "forward" => matmul(lup.L, lup.U) = RowPermuted(sys.A, lup.P)
        /\ lup.b_work.m_rows = sys.b.m_rows /\ lup.b_work.m_cols = sys.b.m_cols
        /\ \A i \in 0..(sys.A.m_rows - 1) :
               vector_at(lup.b_work, i) = vector_at(sys.b, lup.P[i + 1])
        /\ pc \in {"forward", "backward", "returned"} => lup.k = sys.A.m_rows

\* A 3 x 3 decomposition that swapped rows at both steps; the swap of step 1
\* moved the multiplier of step 0 from row 2 of L to row 1.
C24_Witness ==
    /\ pc = "forward"
    /\ sys.A.m_rows = 3
    /\ lup.P = <<1, 2, 0>>
    /\ at(lup.L, 1, 0) # RZero /\ at(lup.L, 2, 0) = RZero /\ at(lup.L, 2, 1) # RZero

\* C26: the singularity test is made at every column k = 0..n-1, the last one
\* included, so whenever lu_decompose_lup returns every diagonal entry of U
\* has magnitude > eps, and neither the multiplier computation nor backward
\* substitution divides by a value of magnitude <= eps.
C26_NoSmallDivisor ==
    /\ (Stepped /\ pc # "singular") =>
           \A i \in 0..LastK : ~LeEps(RAbs(at(lup.U, i, i)))
    /\ pc \in {"forward", "backward", "returned"} =>
           /\ lup.k = lup.U.m_rows
           /\ \A i \in 0..(lup.U.m_rows - 1) :
                  /\ ~LeEps(RAbs(at(lup.U, i, i)))
                  /\ at(lup.U, i, i) # RZero
    /\ (pc = "singular" /\ lup.k = lup.U.m_rows - 1) =>
           LeEps(RAbs(at(lup.U, lup.k, lup.k)))

\* A 3 x 3 system was solved whose last pivot, the only candidate of the last
\* column, is a fraction left by two eliminations.
C26_Witness ==
    /\ pc = "returned"
    /\ lup.U.m_rows = 3
    /\ at(lup.U, 2, 2)[2] > 1
    /\ lup.x # EmptyMatrix

----------------------------------------------------------------------------
(* Properties of the iteration count and of the stopping tests.            *)

\* C27: the iteration count a run reports is the 1-based index of the last
\* iteration entered, so it lies in 1..max_iter; a run whose x0 already
\* satisfies the residual criterion reports 1 iteration with x unchanged, and
\* a run that did not converge reports exactly max_iter.
C27_IterationCount ==
    /\ pc \in {"jacobian", "solve", "test", "fatal"} =>
           (nw.iter_done = nw.k + 1 /\ nw.iter_done = nw.n_F)
    /\ pc = "done" =>
           /\ nw.report.iter_done \in 1..nw.max_iter
           /\ nw.report.iter_done = nw.n_F
           /\ nw.report.status = "converged" => nw.report.iter_done = nw.k + 1
           /\ nw.report.status = "not_converged" =>
                  (nw.report.iter_done = nw.max_iter /\ nw.k = nw.max_iter)
           /\ NormBelow(compute_F(nw.x0).m_data, nw.eps_F) =>
                  /\ nw.report.status = "converged"
                  /\ nw.report.iter_done = 1
                  /\ nw.report.x = nw.x0
                  /\ nw.n_update = 0 /\ nw.n_solve = 0

\* x0 = (1, 1) has ||F|| = 1 < eps_F = 2: one iteration is reported although
\* two were allowed.
C27_Witness ==
    /\ pc = "done"
    /\ nw.max_iter = MaxIter
    /\ nw.x0 = <<RInt(1), RInt(1)>>
    /\ nw.eps_F = RInt(2)
    /\ nw.report.status = "converged"
    /\ nw.report.iter_done = 1
    /\ nw.report.x = nw.x0

\* C28: both convergence tests are strict inequalities against non-negative
\* norms, so a run with eps_F <= 0 and eps_x <= 0 never ends converged: it
\* ends not converged after exactly max_iter iterations or in a fatal error,
\* and a residual or a step that is exactly zero passes neither test.
C28_NeverConvergedBelowZero ==
    (nw.eps_F[1] <= 0 /\ nw.eps_x[1] <= 0) =>
        /\ ~nw.converged
        /\ nw.message = "none"
        /\ ~ResidualBelow(RZero, nw.eps_F)
        /\ ~StepBelow(RZero, nw.eps_x, norm_l2_sq(to_column_matrix(nw.x)))
        /\ pc = "report" => nw.k = nw.max_iter
        /\ pc = "done" =>
               /\ nw.report.status = "not_converged"
               /\ nw.report.iter_done = nw.max_iter
               /\ nw.n_F = nw.max_iter
               /\ nw.n_update = nw.max_iter
        /\ pc = "fatal" => nw.report = NoReport

\* Two full iterations with eps_F = 0 and eps_x = 0, then the report.
C28_Witness ==
    /\ pc = "done"
    /\ nw.eps_F = RZero /\ nw.eps_x = RZero
    /\ nw.max_iter = MaxIter
    /\ nw.report.status = "not_converged"
    /\ nw.report.iter_done = MaxIter
    /\ nw.x # nw.x0

----------------------------------------------------------------------------
(* Properties of solve_lup as a whole.                                     *)

\* The vector v in the other orientation: the same data as n x 1 or 1 x n.
Flip(v) == Matrix(v.m_cols, v.m_rows, v.m_data)

\* C29: solve_lup returns an n x 1 column whatever the orientation of b, and
\* the values do not depend on it: with b given as 1 x n and as n x 1 both
\* calls fail with the singular-matrix error or both return the same n x 1
\* result, the row swaps being applied to b alike in both orientations.
C29_OrientationFree ==
    /\ pc \in {"pivot", "forward", "backward", "returned", "singular"} =>
           /\ lup.b_work.m_rows = sys.b.m_rows /\ lup.b_work.m_cols = sys.b.m_cols
           /\ \A i \in 0..(sys.A.m_rows - 1) :
                  vector_at(lup.b_work, i) = vector_at(sys.b, lup.P[i + 1])
    /\ pc = "returned" =>
           /\ lup.x.m_rows = sys.A.m_rows /\ lup.x.m_cols = 1
           /\ solve_lup(sys.A, Flip(sys.b)) = [status |-> "ok", err |-> "none", x |-> lup.x]
    /\ pc = "singular" =>
           \E r \in {solve_lup(sys.A, Flip(sys.b))} :
               r.status = "singular" /\ r.err = err

\* A 3 x 3 system with b given as a row was solved after a swap that moved
\* the entries of b.
C29_Witness ==
    /\ pc = "returned"
    /\ sys.A.m_rows = 3
    /\ sys.b.m_rows = 1 /\ sys.b.m_cols = 3
    /\ lup.b_work # sys.b
    /\ lup.x.m_rows = 3 /\ lup.x.m_cols = 1

\* C30: every permutation lu_decompose_lup builds for a row swap (the
\* identity with entries k and pivot exchanged, k < pivot < n) is a bijection
\* on 0..n-1 of length n, so the row_permute / permute_vector calls of the
\* elimination never fail validation, and the only error solve_lup raises on
\* a well-formed system is the singular-matrix error.
C30_SwapPermValid ==
    /\ pc # "permute_failed"
    /\ pc \in LupLive => (err # "none" <=> pc = "singular")
    /\ (Stepped /\ lup.pivot # LastK) =>
           /\ LastK < lup.pivot /\ lup.pivot < lup.U_pre.m_rows
           /\ IsBijection(build_swap_perm(lup.U_pre.m_rows, LastK, lup.pivot),
                          lup.U_pre.m_rows)
           /\ PermCheck(build_swap_perm(lup.U_pre.m_rows, LastK, lup.pivot),
                        lup.U_pre.m_rows) = "none"
           /\ \A t \in 0..(lup.U_pre.m_rows - 1) :
                  build_swap_perm(lup.U_pre.m_rows, LastK, lup.pivot)[t + 1] =
                      IF t = LastK THEN lup.pivot
                      ELSE IF t = lup.pivot THEN LastK
                      ELSE t
           /\ pc # "singular" =>
                  /\ lup.U_pre # RowPermuted(lup.U_pre,
                                     build_swap_perm(lup.U_pre.m_rows, LastK, lup.pivot))
                  /\ \A j \in 0..(lup.U.m_cols - 1) :
                         at(lup.U, LastK, j) = at(lup.U_pre, lup.pivot, j)

\* Step 1 of a 3 x 3 decomposition exchanged rows 1 and 2 without an error.
C30_Witness ==
    /\ pc = "pivot"
    /\ lup.U_pre.m_rows = 3
    /\ lup.k = 2
    /\ lup.pivot = 2
    /\ lup.U # lup.U_pre
    /\ err = "none"

\* The offset of column j: h_j = sqrt(eps) * (1 + |x_j|).
Hj(j) == StepH(jb.x_in[j + 1])

\* p is x_in moved in coordinate j alone, by exactly d.
OnlyCoordinate(p, j, d) ==
    /\ Len(p) = Len(jb.x_in)
    /\ p[j + 1] = RAdd(jb.x_in[j + 1], d)
    /\ p[j + 1] # jb.x_in[j + 1]
    /\ \A t \in 1..Len(p) : t # j + 1 => p[t] = jb.x_in[t]

\* C25: a finished build of the numeric Jacobian of the n-equation system has
\* evaluated the residual vector n + 1 times with the two-point formula, first
\* at x and then at x + h_j e_j for j = 0..n-1, and 2n times with the
\* three-point formula, at x + h_j e_j and x - h_j e_j for j = 0..n-1 and never
\* at x; each perturbed point differs from x in coordinate j only; x is as
\* the caller passed it; and the count never exceeds these numbers on the way.
C25_ResidualEvaluations ==
    /\ jb.run = "TwoPoint" =>
          /\ jb.n_F <= NFunctions + 1
          /\ pc = "returned" =>
                /\ jb.n_F = NFunctions + 1
                /\ Len(jb.points) = NFunctions + 1
                /\ jb.points[1] = jb.x_in
                /\ \A j \in 0..(NFunctions - 1) :
                      OnlyCoordinate(jb.points[j + 2], j, Hj(j))
                /\ jb.J = build_jacobian_two_point(jb.x_in)
    /\ jb.run = "ThreePoint" =>
          /\ jb.n_F <= 2 * NFunctions
          /\ \A t \in 1..Len(jb.points) : jb.points[t] # jb.x_in
          /\ pc = "returned" =>
                /\ jb.n_F = 2 * NFunctions
                /\ Len(jb.points) = 2 * NFunctions
                /\ \A j \in 0..(NFunctions - 1) :
                      /\ OnlyCoordinate(jb.points[2 * j + 1], j, Hj(j))
                      /\ OnlyCoordinate(jb.points[2 * j + 2], j, RNeg(Hj(j)))
                /\ jb.J = build_jacobian_three_point(jb.x_in)
    /\ jb.run # "none" => jb.x = jb.x_in /\ Len(jb.points) = jb.n_F

\* A three-point build at a point with a non-zero second coordinate returned
\* after its four evaluations.
C25_Witness ==
    /\ pc = "returned"
    /\ jb.run = "ThreePoint"
    /\ jb.n_F = 4
    /\ jb.x_in[2] # RZero
    /\ jb.points[3] # jb.points[1]

====
